---- MODULE Spec2Model ----
(***************************************************************************)
(* A model of the meshigo-kore gateway core: the event bus, the TCP        *)
(* transport with its reconnect loop, the frame codec, the state manager   *)
(* and the gateway service that composes them.                             *)
(***************************************************************************)
EXTENDS Integers, Sequences, FiniteSets, TLC

\* ------------------------------------------------------------------------
\* Bounds of the model
\* ------------------------------------------------------------------------

\* Publish calls explored by BusSpec.
MaxPublish == 3

\* Publish calls beyond a subscriber's buffer capacity explored by BusFullSpec.
Overflow == 2

\* In BusFullSpec a subscriber joins while at most this many events were published.
MaxLateJoin == 1

\* AdapterSpec: the events published beyond the outward stream's capacity,
\* and the events the consumer reads before it stops.
AdapterOverflow == 2
MaxOutReads == 1

\* Frames the reader reads from the link in Spec.
MaxFrames == 2

\* Length of the longer of the two payloads the link delivers in Spec.
MaxPayloadLen == 5

\* Frames read beyond the receive queue's capacity in QueueSpec.
QueueOverflow == 2

\* Frames the ingest loop receives in QueueSpec.
MaxIngest == 2

\* Reader tasks a transport instance is ever given.
MaxReaders == 2

\* Frames the reader reads from the link in LifeSpec.
MaxLifeFrames == 1

\* Consecutive dial failures counted, and explored by BackoffSpec.
MaxFails == 7

\* In SendSpec a Send is called on a connection that carries fewer bytes.
MaxWireBytes == 8

\* Node objects the callers of UpsertNode make in StateSpec.
MaxNodes == 2

\* Node objects the callers of UpsertNode make in CallerSpec.
MaxCallerNodes == 1

\* The longest payload, and the largest small declared length, of the raw
\* inputs given to DecodeFromRadio in CodecSpec.
MaxCodecLen == 4

\* cfg.MaxPeers of the replication manager in ReplSpec.
MaxPeers == 2

\* AddPeer calls in ReplSpec.
MaxAddPeers == 4

\* Dials in a row that fail, per reader task, in ConnectSpec.
MaxConnectFails == 1

\* UpsertNode calls that pass validation in HydrateSpec.
MaxHydrateUpserts == 2

\* UpdateTelemetry and UpdatePosition calls on cached nodes in StateSpec.
MaxUpdates == 1

\* ------------------------------------------------------------------------
\* Program constants
\* ------------------------------------------------------------------------

\* make(chan Event, 64)
SubChanCap == 64

\* tcpInitialBackoff, tcpMaxBackoff (seconds)
tcpInitialBackoff == 2
tcpMaxBackoff == 60

\* tcpFrameChanSize
tcpFrameChanSize == 256

\* The largest frame length readFrames accepts: 512*1024.
MaxFrameLen == 524288

\* ------------------------------------------------------------------------
\* Helpers
\* ------------------------------------------------------------------------

Range(f) == {f[i] : i \in DOMAIN f}


\* ------------------------------------------------------------------------
\* State
\* ------------------------------------------------------------------------

Subscribers == {"s1", "s2"}
Publishers == {"ingest", "caller"}

VARIABLES
    \* EventBus
    subs,        \* b.subs: the subscriber registry
    ch,          \* s.ch of every subscriber: buffer and closed flag
    subPc,       \* where each subscriber's Subscribe / unsubscribe stands
    busReaders,  \* the Publish calls that hold b.mu.RLock
    pub,         \* each Publish call in progress: event, subscribers left
    busPanic,    \* the run-time panic the bus has raised, if any
    now,         \* logical clock: the value time.Now() returned last
    nPub,        \* number of Publish calls made
    \* history of the bus, read by the properties only
    offered,     \* per subscriber: the sends Publish attempted, in order
    got,         \* per subscriber: the events its consumer received
    metFull,     \* per subscriber: the sends attempted on a full buffer
    joinedAt,    \* per subscriber: the clock when Subscribe registered it
    \* TCPTransport
    tState,      \* t.state
    tMu,         \* t.mu: "free" or the caller that holds it
    tConn,       \* t.conn: 0 (nil) or the reader whose connection it is
    tCancel,     \* t.cancel: 0 (nil) or the reader whose context it cancels
    wg,          \* t.wg: reader tasks not yet done
    ctxDone,     \* the readers whose context is cancelled
    connOpen,    \* the readers whose current connection is not closed
    rd,          \* each reader task: position, backoff, frame in hand
    frames,      \* t.frames: the receive queue
    disc,        \* each caller's Disconnect call
    nRead,       \* number of frames read from the link
    \* history of the transport, read by the properties only
    readLog,     \* the frames read from the link, in order
    fullLog,     \* the frames that found the receive queue full
    cancelLog,   \* the frames in hand when readFrames returned on ctx.Done
    \* GatewayService
    gwCtxDone,   \* the context given to Start is cancelled
    startPc,     \* where Start stands
    srv,         \* the HTTP server
    ingestPc,    \* where ingestLoop stands
    ingestMsg,   \* the message record the ingest iteration works on
    db,          \* the rows of the messages table
    ingested,    \* history: the frames ingestLoop received, in order
    \* TCPTransport.Send
    send,        \* each caller's Send call: position, conn read, result
    wire,        \* per connection: the bytes written to it, in order
    \* state.Manager
    heap,        \* the Node objects callers have made, by reference
    nodes,       \* m.nodes: node id -> reference of the cached object
    smMu,        \* m.mu: "free" or the UpsertNode call that holds it
    up,          \* each caller's UpsertNode call
    smNow,       \* logical clock: the value time.Now() returned last
    peers,       \* the rows of the peers table, by node_id
    listed,      \* the list a ListNodes call returned last, by node id
    \* MeshtasticProtobuf and replication.Manager
    codec,       \* a caller of the frame codec: its input and results
    repl,        \* replication.Manager: m.peers and the last AddPeer call
    \* The subscribe adapter of gateway.New
    out,         \* the adapter's outward stream: its buffer, whether closed
    fwd          \* the adapter's forwarding task: its position, the event held

busVars == <<subs, ch, subPc, busReaders, pub, busPanic, now, nPub,
             offered, got, metFull, joinedAt>>

tVars == <<tState, tMu, tConn, tCancel, wg, ctxDone, connOpen, rd, frames,
           disc, nRead, readLog, fullLog, cancelLog>>

gwVars == <<gwCtxDone, startPc, srv, ingestPc, ingestMsg, db, ingested>>

sendVars == <<send, wire>>

\* The state of the components that Start and the event bus do not touch.
smVars == <<heap, nodes, smMu, up, smNow, peers>>

callerVars == <<listed>>

adapterVars == <<out, fwd>>

libVars == <<codec, repl, adapterVars>>

otherVars == <<sendVars, smVars, callerVars, libVars>>

vars == <<busVars, tVars, gwVars, otherVars>>

\* ------------------------------------------------------------------------
\* EventBus
\* ------------------------------------------------------------------------

EventMessage == "message"
EventNodeUpdate == "node_update"

\* Event{Type, Timestamp, Data}; Timestamp 0 is the zero time.
Event(type, data) == [Type |-> type, Timestamp |-> 0, Data |-> data]

NoEvent == Event("none", 0)

IdlePub == [pc |-> "idle", e |-> NoEvent, todo |-> {}, snap |-> {}]

NewChan == [buf |-> <<>>, closed |-> FALSE]

BusInit ==
    /\ subs = {}
    /\ ch = [s \in Subscribers |-> NewChan]
    /\ subPc = [s \in Subscribers |-> "none"]
    /\ busReaders = {}
    /\ pub = [p \in Publishers |-> IdlePub]
    /\ busPanic = "none"
    /\ now = 0
    /\ nPub = 0
    /\ offered = [s \in Subscribers |-> <<>>]
    /\ got = [s \in Subscribers |-> <<>>]
    /\ metFull = [s \in Subscribers |-> 0]
    /\ joinedAt = [s \in Subscribers |-> 0]

\* b.mu.Lock() can be taken: no Publish holds the read lock. (Lock, the
\* registry update and Unlock happen within one step, so no writer is ever
\* seen holding the lock between steps.)
CanLockNoWait == TRUE
CanLock == busReaders = {}

\* Subscribe: make the channel, then add the subscriber under the write lock.
Subscribe(s) ==
    /\ busPanic = "none"
    /\ subPc[s] = "none"
    /\ CanLock
    /\ ch' = [ch EXCEPT ![s] = NewChan]
    /\ subs' = subs \cup {s}
    /\ subPc' = [subPc EXCEPT ![s] = "subscribed"]
    /\ joinedAt' = [joinedAt EXCEPT ![s] = now]
    /\ UNCHANGED <<busReaders, pub, busPanic, now, nPub, offered, got, metFull>>
    /\ UNCHANGED <<tVars, gwVars, otherVars>>

\* unsub, first half: delete(b.subs, s) under the write lock.
UnsubDelete(s) ==
    /\ busPanic = "none"
    /\ subPc[s] = "subscribed"
    /\ CanLock
    /\ subs' = subs \ {s}
    /\ subPc' = [subPc EXCEPT ![s] = "closing"]
    /\ UNCHANGED <<ch, busReaders, pub, busPanic, now, nPub, offered, got, metFull, joinedAt>>
    /\ UNCHANGED <<tVars, gwVars, otherVars>>

\* unsub, second half: close(s.ch) after the lock is released; unsub returns.
UnsubClose(s) ==
    /\ busPanic = "none"
    /\ subPc[s] = "closing"
    /\ IF ch[s].closed
       THEN busPanic' = "close of closed channel" /\ UNCHANGED ch
       ELSE ch' = [ch EXCEPT ![s].closed = TRUE] /\ UNCHANGED busPanic
    /\ subPc' = [subPc EXCEPT ![s] = "unsubscribed"]
    /\ UNCHANGED <<subs, busReaders, pub, now, nPub, offered, got, metFull, joinedAt>>
    /\ UNCHANGED <<tVars, gwVars, otherVars>>

\* unsub called again after it has returned, first half: delete(b.subs, s)
\* under the write lock, of a subscriber that is no longer registered.
UnsubAgainDelete(s) ==
    /\ busPanic = "none"
    /\ subPc[s] = "unsubscribed"
    /\ CanLock
    /\ subs' = subs \ {s}
    /\ subPc' = [subPc EXCEPT ![s] = "closing"]
    /\ UNCHANGED <<ch, busReaders, pub, busPanic, now, nPub, offered, got, metFull, joinedAt>>
    /\ UNCHANGED <<tVars, gwVars, otherVars>>

\* The consumer of s receives one buffered event from its stream.
Consume(s) ==
    /\ busPanic = "none"
    /\ subPc[s] # "none"
    /\ ch[s].buf # <<>>
    /\ got' = [got EXCEPT ![s] = Append(@, Head(ch[s].buf))]
    /\ ch' = [ch EXCEPT ![s].buf = Tail(@)]
    /\ UNCHANGED <<subs, subPc, busReaders, pub, busPanic, now, nPub, offered,
                   metFull, joinedAt>>
    /\ UNCHANGED <<tVars, gwVars, otherVars>>

\* e.Timestamp.IsZero() => e.Timestamp = time.Now().UTC()
Stamp(e, t) == IF e.Timestamp = 0 THEN [e EXCEPT !.Timestamp = t] ELSE e

\* Publish, entry: stamp the event, take the read lock, start ranging over
\* b.subs (the registry cannot change while the read lock is held).
PublishBegin(p, e) ==
    /\ pub[p].pc = "idle"
    /\ busPanic = "none"
    /\ now' = now + 1
    /\ nPub' = nPub + 1
    /\ busReaders' = busReaders \cup {p}
    /\ pub' = [pub EXCEPT ![p] = [pc |-> "sending", e |-> Stamp(e, now + 1),
                                  todo |-> subs, snap |-> subs]]
    /\ UNCHANGED <<subs, ch, subPc, busPanic, offered, got, metFull, joinedAt>>

\* The select of Publish has room to send on a channel holding n events.
HasRoomOffByOne(n) == n <= SubChanCap
HasRoom(n) == n < SubChanCap

\* s.ch <- e: a channel is a FIFO queue.
EnqueueInFront(buf, e) == <<e>> \o buf
Enqueue(buf, e) == Append(buf, e)

\* The subscribers Publish still ranges over after it handled s.
RestAfterStopOnFull(todo, s, full) == IF full THEN {} ELSE todo \ {s}
RestAfter(todo, s, full) == todo \ {s}

\* Publish, one iteration: select { case s.ch <- e: default: }.
PublishSend(p, s) ==
    /\ pub[p].pc = "sending"
    /\ busPanic = "none"
    /\ s \in pub[p].todo
    /\ IF ch[s].closed
       THEN busPanic' = "send on closed channel" /\ UNCHANGED ch
       ELSE /\ UNCHANGED busPanic
            /\ IF HasRoom(Len(ch[s].buf))
               THEN ch' = [ch EXCEPT ![s].buf = Enqueue(@, pub[p].e)]
               ELSE UNCHANGED ch
    /\ offered' = [offered EXCEPT ![s] = Append(@, pub[p].e)]
    /\ metFull' = [metFull EXCEPT ![s] =
                      IF Len(ch[s].buf) >= SubChanCap THEN @ + 1 ELSE @]
    /\ pub' = [pub EXCEPT ![p].todo =
                  RestAfter(@, s, ~HasRoom(Len(ch[s].buf)))]
    /\ UNCHANGED <<subs, subPc, busReaders, now, nPub, got, joinedAt>>

\* Publish, exit: the range is exhausted; the deferred RUnlock runs.
PublishEnd(p) ==
    /\ pub[p].pc = "sending"
    /\ busPanic = "none"
    /\ pub[p].todo = {}
    /\ busReaders' = busReaders \ {p}
    /\ pub' = [pub EXCEPT ![p].pc = "idle"]
    /\ UNCHANGED <<subs, ch, subPc, busPanic, now, nPub, offered, got, metFull, joinedAt>>

\* PublishMessage / PublishNodeUpdate: Publish of an event of that type.
PublishMessage(p, data) == PublishBegin(p, Event(EventMessage, data))
PublishNodeUpdate(p, data) == PublishBegin(p, Event(EventNodeUpdate, data))

\* ------------------------------------------------------------------------
\* The subscribe adapter of gateway.New (subFn)
\* ------------------------------------------------------------------------

\* The subscriber the adapter registers with the bus.
AdapterSub == "s1"

\* ch := make(chan interface{}, 64)
AdapterChanCap == 64

NoForwarder == [pc |-> "none", e |-> NoEvent]

AdapterInit ==
    /\ out = NewChan
    /\ fwd = NoForwarder

\* subFn after bus.Subscribe() returned: make the outward stream, start the
\* forwarding task, return the stream and the bus's unsub.
AdapterStart ==
    /\ subPc[AdapterSub] = "subscribed"
    /\ fwd.pc = "none"
    /\ out' = NewChan
    /\ fwd' = [pc |-> "range", e |-> NoEvent]
    /\ UNCHANGED <<busVars, tVars, gwVars, sendVars, smVars, callerVars,
                   codec, repl>>

\* for e := range typedCh: receive the next buffered event; leave the loop
\* once the stream is closed and empty; wait otherwise.
FwdRecv ==
    /\ fwd.pc = "range"
    /\ IF ch[AdapterSub].buf # <<>>
       THEN /\ fwd' = [pc |-> "send", e |-> Head(ch[AdapterSub].buf)]
            /\ ch' = [ch EXCEPT ![AdapterSub].buf = Tail(@)]
       ELSE /\ ch[AdapterSub].closed
            /\ fwd' = [pc |-> "close", e |-> NoEvent]
            /\ UNCHANGED ch
    /\ UNCHANGED <<subs, subPc, busReaders, pub, busPanic, now, nPub, offered,
                   got, metFull, joinedAt>>
    /\ UNCHANGED <<out, tVars, gwVars, sendVars, smVars, callerVars, codec,
                   repl>>

\* Whether the send ch <- e can proceed on an outward stream holding n events.
OutHasRoom(n) == n < AdapterChanCap

\* ch <- e: a blocking send; it waits while the outward stream is full.
FwdSend ==
    /\ fwd.pc = "send"
    /\ OutHasRoom(Len(out.buf))
    /\ out' = [out EXCEPT !.buf = Enqueue(@, fwd.e)]
    /\ fwd' = [pc |-> "range", e |-> NoEvent]
    /\ UNCHANGED <<busVars, tVars, gwVars, sendVars, smVars, callerVars,
                   codec, repl>>

\* defer close(ch): the loop is over, the task closes the outward stream and
\* ends.
FwdClose ==
    /\ fwd.pc = "close"
    /\ out' = [out EXCEPT !.closed = TRUE]
    /\ fwd' = [pc |-> "done", e |-> NoEvent]
    /\ UNCHANGED <<busVars, tVars, gwVars, sendVars, smVars, callerVars,
                   codec, repl>>

\* The consumer (eventStream's case msg, ok := <-ch) receives one buffered
\* event from the outward stream.
OutConsume ==
    /\ out.buf # <<>>
    /\ out' = [out EXCEPT !.buf = Tail(@)]
    /\ got' = [got EXCEPT ![AdapterSub] = Append(@, Head(out.buf))]
    /\ UNCHANGED <<subs, ch, subPc, busReaders, pub, busPanic, now, nPub,
                   offered, metFull, joinedAt>>
    /\ UNCHANGED <<fwd, tVars, gwVars, sendVars, smVars, callerVars, codec,
                   repl>>

\* ------------------------------------------------------------------------
\* Byte strings and formatting
\* ------------------------------------------------------------------------

\* binary.BigEndian.Uint32 / PutUint32
Uint32LittleEndian(b) == b[4] * 16777216 + b[3] * 65536 + b[2] * 256 + b[1]
Uint32(b) == b[1] * 16777216 + b[2] * 65536 + b[3] * 256 + b[4]
PutUint32(n) ==
    <<(n \div 16777216) % 256, (n \div 65536) % 256, (n \div 256) % 256, n % 256>>

HexDigits == <<"0", "1", "2", "3", "4", "5", "6", "7",
               "8", "9", "a", "b", "c", "d", "e", "f">>

RECURSIVE Pow(_, _)
Pow(b, k) == IF k = 0 THEN 1 ELSE b * Pow(b, k - 1)

\* fmt.Sprintf("!%08x", n), as the sequence of its characters (floored
\* division gives the hex digits of the 32-bit pattern of n)
HexID(n) ==
    <<"!">> \o [i \in 1..8 |-> HexDigits[((n \div Pow(16, 8 - i)) % 16) + 1]]

\* fmt.Sprintf("%d", n), as the sequence of its characters
RECURSIVE Decimal(_)
Decimal(n) ==
    IF n < 10 THEN <<HexDigits[n + 1]>>
    ELSE Decimal(n \div 10) \o <<HexDigits[(n % 10) + 1]>>

\* ------------------------------------------------------------------------
\* MeshtasticProtobuf (frame codec)
\* ------------------------------------------------------------------------

\* 0xFFFFFFFF. A uint32 of 2^31 or more is written as the signed integer
\* with the same 32 bits.
Broadcast == -1

NoPacket == [ID |-> 0, From |-> 0, To |-> 0, Channel |-> 0, PortNum |-> 0,
             Payload |-> <<>>, HopLimit |-> 0, WantAck |-> FALSE]

\* DecodeFromRadio: a 4-byte big-endian length, then that many payload bytes.
DecodeFromRadio(data) ==
    IF Len(data) < 4
    THEN [err |-> "frame too short", Packet |-> NoPacket]
    ELSE LET length == Uint32(SubSeq(data, 1, 4))
             payload == SubSeq(data, 5, Len(data))
         IN  IF Len(payload) < length
             THEN [err |-> "frame truncated", Packet |-> NoPacket]
             ELSE [err |-> "none",
                   Packet |-> [NoPacket EXCEPT
                                  !.Payload = SubSeq(payload, 1, length),
                                  !.To = Broadcast]]

\* A ToRadio message with its packet.
ToRadio(pkt) == [isNil |-> FALSE, hasPacket |-> TRUE, Packet |-> pkt]

\* EncodeToRadio: the 4-byte big-endian length of the packet's payload, then
\* the payload.
EncodeToRadioCountsHeader(msg) ==
    [err |-> "none",
     data |-> PutUint32(Len(msg.Packet.Payload) + 4) \o msg.Packet.Payload]
EncodeToRadio(msg) ==
    IF msg.isNil
    THEN [err |-> "cannot encode nil ToRadio", data |-> <<>>]
    ELSE IF ~msg.hasPacket
    THEN [err |-> "ToRadio.Packet must not be nil", data |-> <<>>]
    ELSE [err |-> "none",
          data |-> PutUint32(Len(msg.Packet.Payload)) \o msg.Packet.Payload]

\* A caller of the codec: hdr header bytes of a header declaring length L,
\* then A payload bytes, are the raw input; dec and enc are what
\* DecodeFromRadio and then EncodeToRadio returned for it.
NoCodec == [pc |-> "idle", hdr |-> 0, L |-> 0, A |-> 0, raw |-> <<>>,
            dec |-> [err |-> "none", Packet |-> NoPacket],
            enc |-> [err |-> "none", data |-> <<>>]]

CodecInit == codec = NoCodec

\* The payload bytes of the raw inputs.
RawPayload(n) == [i \in 1..n |-> ((7 * i) % 250) + 1]

\* The caller gets a raw input: a whole header and A bytes, or only the
\* first hdr bytes of a header.
CodecFeed(hdr, L, A) ==
    /\ codec.pc = "idle"
    /\ hdr < 4 => A = 0
    /\ codec' = [NoCodec EXCEPT
                    !.pc = "raw", !.hdr = hdr, !.L = L, !.A = A,
                    !.raw = SubSeq(PutUint32(L), 1, hdr) \o RawPayload(A)]
    /\ UNCHANGED <<busVars, tVars, gwVars, sendVars, smVars, callerVars, repl, adapterVars>>

\* The caller calls DecodeFromRadio on the input.
CodecDecode ==
    /\ codec.pc = "raw"
    /\ codec' = [codec EXCEPT !.pc = "decoded",
                              !.dec = DecodeFromRadio(codec.raw)]
    /\ UNCHANGED <<busVars, tVars, gwVars, sendVars, smVars, callerVars, repl, adapterVars>>

\* The caller calls EncodeToRadio on the packet DecodeFromRadio returned.
CodecEncode ==
    /\ codec.pc = "decoded"
    /\ codec.dec.err = "none"
    /\ codec' = [codec EXCEPT !.pc = "encoded",
                              !.enc = EncodeToRadio(ToRadio(codec.dec.Packet))]
    /\ UNCHANGED <<busVars, tVars, gwVars, sendVars, smVars, callerVars, repl, adapterVars>>

\* The caller is done with the input.
CodecDone ==
    /\ codec.pc \in {"decoded", "encoded"}
    /\ codec' = NoCodec
    /\ UNCHANGED <<busVars, tVars, gwVars, sendVars, smVars, callerVars, repl, adapterVars>>

\* ------------------------------------------------------------------------
\* TCPTransport
\* ------------------------------------------------------------------------

StateDisconnected == "Disconnected"
StateConnecting == "Connecting"
StateConnected == "Connected"
StateFailed == "Failed"

Readers == 1..MaxReaders
Callers == {"start", "api"}

MinInverted(a, b) == IF a < b THEN b ELSE a
Min(a, b) == IF a < b THEN a ELSE b

NoFrame == [Data |-> <<>>, Timestamp |-> 0]

\* The value of readFrames' n before a header is read.
NoHeader == -1

\* (fails is history: the dial failures since the task started or since its
\* last successful dial, counted up to MaxFails.)
NoReader == [pc |-> "none", backoff |-> tcpInitialBackoff, frame |-> NoFrame,
             n |-> NoHeader, fails |-> 0]

\* NewTCPTransport
TransportInit ==
    /\ tState = StateDisconnected
    /\ tMu = "free"
    /\ tConn = 0
    /\ tCancel = 0
    /\ wg = 0
    /\ ctxDone = {}
    /\ connOpen = {}
    /\ rd = [r \in Readers |-> NoReader]
    /\ frames = <<>>
    /\ disc = [c \in Callers |-> "idle"]
    /\ nRead = 0
    /\ readLog = <<>>
    /\ fullLog = {}
    /\ cancelLog = {}

\* Whether t.frames is closed: the channel is made by NewTCPTransport and
\* no statement of the transport closes it.
FramesClosed == FALSE

\* The reader tasks started so far.
Started == {r \in Readers : rd[r].pc # "none"}

\* Connect: under t.mu, return if the state is Connected; else make a
\* context, keep its cancel function, and start a reader task.
Connect ==
    /\ tMu = "free"
    /\ IF tState = StateConnected
       THEN UNCHANGED <<tCancel, wg, rd>>
       ELSE /\ Cardinality(Started) < MaxReaders
            /\ LET r == Cardinality(Started) + 1 IN
               /\ tCancel' = r
               /\ wg' = wg + 1
               /\ rd' = [rd EXCEPT ![r].pc = "top"]
    /\ UNCHANGED <<tState, tMu, tConn, ctxDone, connOpen, frames, disc, nRead,
                   readLog, fullLog, cancelLog>>

\* Disconnect, first part: take t.mu, cancel, close and clear t.conn; the
\* call then waits in t.wg.Wait() with t.mu held.
DisconnectBegin(c) ==
    /\ disc[c] = "called"
    /\ tMu = "free"
    /\ tMu' = c
    /\ ctxDone' = IF tCancel # 0 THEN ctxDone \cup {tCancel} ELSE ctxDone
    /\ tCancel' = 0
    /\ connOpen' = IF tConn # 0 THEN connOpen \ {tConn} ELSE connOpen
    /\ tConn' = 0
    /\ disc' = [disc EXCEPT ![c] = "waiting"]
    /\ UNCHANGED <<tState, wg, rd, frames, nRead, readLog, fullLog, cancelLog>>

\* t.wg.Wait() returns once every reader task is done.
WaitDone(n) == n = 0

\* Disconnect, second part: Wait returned; store Disconnected, release t.mu.
DisconnectEnd(c) ==
    /\ disc[c] = "waiting"
    /\ WaitDone(wg)
    /\ tState' = StateDisconnected
    /\ tMu' = "free"
    /\ disc' = [disc EXCEPT ![c] = "returned"]
    /\ UNCHANGED <<tConn, tCancel, wg, ctxDone, connOpen, rd, frames, nRead,
                   readLog, fullLog, cancelLog>>

\* readLoop, top of the loop: leave if the context is cancelled, else dial.
ReaderTop(r) ==
    /\ rd[r].pc = "top"
    /\ IF r \in ctxDone
       THEN /\ tState' = StateDisconnected
            /\ wg' = wg - 1
            /\ rd' = [rd EXCEPT ![r].pc = "exit"]
       ELSE /\ tState' = StateConnecting
            /\ rd' = [rd EXCEPT ![r].pc = "dial"]
            /\ UNCHANGED wg
    /\ UNCHANGED <<tMu, tConn, tCancel, ctxDone, connOpen, frames, disc, nRead,
                   readLog, fullLog, cancelLog>>
    /\ UNCHANGED <<busVars, gwVars, otherVars>>

\* net.DialTimeout returns: a connection (the backoff is reset) or an error
\* (the state becomes Failed and the loop waits the backoff).
ReaderDial(r, ok) ==
    /\ rd[r].pc = "dial"
    /\ IF ok
       THEN /\ rd' = [rd EXCEPT ![r].pc = "install",
                                ![r].backoff = tcpInitialBackoff,
                                ![r].n = NoHeader,
                                ![r].fails = 0]
            /\ connOpen' = connOpen \cup {r}
            /\ UNCHANGED tState
       ELSE /\ rd' = [rd EXCEPT ![r].pc = "backoff",
                                ![r].fails = IF @ < MaxFails THEN @ + 1 ELSE @]
            /\ tState' = StateFailed
            /\ UNCHANGED connOpen
    /\ UNCHANGED <<tMu, tConn, tCancel, wg, ctxDone, frames, disc, nRead,
                   readLog, fullLog, cancelLog>>
    /\ UNCHANGED <<busVars, gwVars, otherVars>>

\* select, case <-ctx.Done(): the reader task returns.
ReaderBackoffCancelled(r) ==
    /\ rd[r].pc = "backoff"
    /\ r \in ctxDone
    /\ wg' = wg - 1
    /\ rd' = [rd EXCEPT ![r].pc = "exit"]
    /\ UNCHANGED <<tState, tMu, tConn, tCancel, ctxDone, connOpen, frames, disc,
                   nRead, readLog, fullLog, cancelLog>>
    /\ UNCHANGED <<busVars, gwVars, otherVars>>

\* Where the reader goes when the backoff delay has elapsed.
AfterBackoffGiveUp(r) == "gaveup"
AfterBackoff(r) == "top"

\* select, case <-time.After(backoff): double the backoff, capped; retry.
ReaderBackoffElapsed(r) ==
    /\ rd[r].pc = "backoff"
    /\ rd' = [rd EXCEPT ![r].pc = AfterBackoff(r),
                        ![r].backoff = Min(rd[r].backoff * 2, tcpMaxBackoff)]
    /\ UNCHANGED <<tState, tMu, tConn, tCancel, wg, ctxDone, connOpen, frames,
                   disc, nRead, readLog, fullLog, cancelLog>>
    /\ UNCHANGED <<busVars, gwVars, otherVars>>

\* t.mu.Lock(); t.conn = conn; t.mu.Unlock()
ReaderInstall(r) ==
    /\ rd[r].pc = "install"
    /\ tMu = "free"
    /\ tConn' = r
    /\ rd' = [rd EXCEPT ![r].pc = "connected"]
    /\ UNCHANGED <<tState, tMu, tCancel, wg, ctxDone, connOpen, frames, disc,
                   nRead, readLog, fullLog, cancelLog>>
    /\ UNCHANGED <<busVars, gwVars, otherVars>>

\* t.state.Store(Connected); readFrames starts.
ReaderConnected(r) ==
    /\ rd[r].pc = "connected"
    /\ tState' = StateConnected
    /\ rd' = [rd EXCEPT ![r].pc = "read"]
    /\ UNCHANGED <<tMu, tConn, tCancel, wg, ctxDone, connOpen, frames, disc,
                   nRead, readLog, fullLog, cancelLog>>
    /\ UNCHANGED <<busVars, gwVars, otherVars>>

\* readFrames' watcher: once the context is cancelled it closes the connection.
\* (With a single Connect call Disconnect cancels the context and closes
\* t.conn, this reader's connection, in one step under t.mu, so the watcher
\* finds the connection closed; it acts only for a reader whose connection
\* is no longer t.conn.)
ReadWatcher(r) ==
    /\ rd[r].pc \in {"read", "enqueue"}
    /\ r \in ctxDone
    /\ r \in connOpen
    /\ connOpen' = connOpen \ {r}
    /\ UNCHANGED <<tState, tMu, tConn, tCancel, wg, ctxDone, rd, frames, disc,
                   nRead, readLog, fullLog, cancelLog>>
    /\ UNCHANGED <<busVars, gwVars, otherVars>>

\* readFrames rejects a header that declares n payload bytes.
InvalidSize(n) == n = 0 \/ n > MaxFrameLen

\* readFrames reads a header and, if its length is valid, the payload that
\* follows; with an invalid length it returns.
ReadFrame(r, hdr, payload) ==
    /\ rd[r].pc = "read"
    /\ r \in connOpen
    /\ IF InvalidSize(Uint32(hdr))
       THEN /\ rd' = [rd EXCEPT ![r].pc = "uninstall", ![r].n = Uint32(hdr)]
            /\ UNCHANGED <<nRead, readLog>>
       ELSE /\ Len(payload) = Uint32(hdr)
            /\ nRead' = nRead + 1
            /\ LET f == [Data |-> payload, Timestamp |-> nRead + 1] IN
               /\ rd' = [rd EXCEPT ![r].pc = "enqueue", ![r].frame = f,
                                   ![r].n = Uint32(hdr)]
               /\ readLog' = Append(readLog, f)
    /\ UNCHANGED <<tState, tMu, tConn, tCancel, wg, ctxDone, connOpen, frames,
                   disc, fullLog, cancelLog>>
    /\ UNCHANGED <<busVars, gwVars, otherVars>>

\* io.ReadFull fails because the peer closed the link or the network failed.
ReadFailsLink(r) ==
    /\ rd[r].pc = "read"
    /\ r \in connOpen
    /\ rd' = [rd EXCEPT ![r].pc = "uninstall"]
    /\ UNCHANGED <<tState, tMu, tConn, tCancel, wg, ctxDone, connOpen, frames,
                   disc, nRead, readLog, fullLog, cancelLog>>
    /\ UNCHANGED <<busVars, gwVars, otherVars>>

\* io.ReadFull fails because the connection was closed on this side.
ReadFailsClosed(r) ==
    /\ rd[r].pc = "read"
    /\ r \notin connOpen
    /\ rd' = [rd EXCEPT ![r].pc = "uninstall"]
    /\ UNCHANGED <<tState, tMu, tConn, tCancel, wg, ctxDone, connOpen, frames,
                   disc, nRead, readLog, fullLog, cancelLog>>
    /\ UNCHANGED <<busVars, gwVars, otherVars>>

\* t.frames <- f on a channel of capacity tcpFrameChanSize
QueueHasRoomOffByOne(q) == Len(q) <= tcpFrameChanSize
QueueHasRoom(q) == Len(q) < tcpFrameChanSize

QueuePutInFront(q, f) == <<f>> \o q
QueuePut(q, f) == Append(q, f)

\* readFrames' select with a frame in hand: enqueue it if the queue has
\* room, return if the context is cancelled (either, if both are ready),
\* and drop the frame if neither is.
ReaderEnqueue(r, choice) ==
    /\ rd[r].pc = "enqueue"
    /\ LET f == rd[r].frame IN
       /\ fullLog' = IF Len(frames) >= tcpFrameChanSize
                     THEN fullLog \cup {f.Timestamp} ELSE fullLog
       /\ CASE choice = "send" ->
                 /\ QueueHasRoom(frames)
                 /\ frames' = QueuePut(frames, f)
                 /\ UNCHANGED cancelLog
                 /\ rd' = [rd EXCEPT ![r].pc = "read", ![r].frame = NoFrame]
            [] choice = "done" ->
                 /\ r \in ctxDone
                 /\ UNCHANGED frames
                 /\ cancelLog' = cancelLog \cup {f.Timestamp}
                 /\ rd' = [rd EXCEPT ![r].pc = "uninstall", ![r].frame = NoFrame]
            [] choice = "default" ->
                 /\ ~QueueHasRoom(frames)
                 /\ r \notin ctxDone
                 /\ UNCHANGED frames
                 /\ UNCHANGED cancelLog
                 /\ rd' = [rd EXCEPT ![r].pc = "read", ![r].frame = NoFrame]
    /\ UNCHANGED <<tState, tMu, tConn, tCancel, wg, ctxDone, connOpen, disc,
                   nRead, readLog>>
    /\ UNCHANGED <<busVars, gwVars, otherVars>>

\* readFrames returned: t.mu.Lock(); t.conn = nil; t.mu.Unlock()
ReaderUninstall(r) ==
    /\ rd[r].pc = "uninstall"
    /\ tMu = "free"
    /\ tConn' = 0
    /\ rd' = [rd EXCEPT ![r].pc = "lost"]
    /\ UNCHANGED <<tState, tMu, tCancel, wg, ctxDone, connOpen, frames, disc,
                   nRead, readLog, fullLog, cancelLog>>
    /\ UNCHANGED <<busVars, gwVars, otherVars>>

\* Where the reader goes after a connection is lost without cancellation.
AfterLoss(r) == "top"

\* t.state.Store(Disconnected); return if the context is cancelled, else
\* go round the loop to dial again.
ReaderLost(r) ==
    /\ rd[r].pc = "lost"
    /\ tState' = StateDisconnected
    /\ IF r \in ctxDone
       THEN /\ wg' = wg - 1
            /\ rd' = [rd EXCEPT ![r].pc = "exit"]
       ELSE /\ rd' = [rd EXCEPT ![r].pc = AfterLoss(r)]
            /\ UNCHANGED wg
    /\ UNCHANGED <<tMu, tConn, tCancel, ctxDone, connOpen, frames, disc, nRead,
                   readLog, fullLog, cancelLog>>
    /\ UNCHANGED <<busVars, gwVars, otherVars>>

\* ------------------------------------------------------------------------
\* TCPTransport.Send
\* ------------------------------------------------------------------------

Senders == {"a", "b"}

NoSend == [pc |-> "idle", conn |-> 0, chunks |-> <<>>, err |-> "none",
           wrote |-> 0]

SendInit ==
    /\ send = [c \in Senders |-> NoSend]
    /\ wire = [r \in Readers |-> <<>>]

\* Send's test conn == nil, negated.
HasLink(conn) == conn # 0

\* The Write calls Send makes for a frame: one, of header and payload.
WritesSplit(hdr, data) == <<hdr, data>>
Writes(hdr, data) == <<hdr \o data>>

\* Send, first part: read t.conn under t.mu; fail if it is nil, else build
\* the header of the payload's length.
SendBegin(c, data) ==
    /\ send[c].pc = "idle"
    /\ tMu = "free"
    /\ IF HasLink(tConn)
       THEN send' = [send EXCEPT ![c] =
                        [pc |-> "write", conn |-> tConn,
                         chunks |-> Writes(PutUint32(Len(data)), data),
                         err |-> "none", wrote |-> 0]]
       ELSE send' = [send EXCEPT ![c] =
                        [pc |-> "done", conn |-> tConn, chunks |-> <<>>,
                         err |-> "not connected", wrote |-> 0]]
    /\ UNCHANGED wire
    /\ UNCHANGED <<busVars, tVars, gwVars, smVars, callerVars, libVars>>

\* conn.Write: the bytes of one call go out together; on a closed
\* connection the call fails and Send returns the error.
SendWrite(c) ==
    /\ send[c].pc = "write"
    /\ LET conn == send[c].conn
           bytes == Head(send[c].chunks)
           rest == Tail(send[c].chunks)
       IN  IF conn \in connOpen
           THEN /\ wire' = [wire EXCEPT ![conn] = @ \o bytes]
                /\ send' = [send EXCEPT
                               ![c].chunks = rest,
                               ![c].wrote = @ + Len(bytes),
                               ![c].pc = IF rest = <<>> THEN "done" ELSE "write"]
           ELSE /\ send' = [send EXCEPT ![c].pc = "done", ![c].err = "send",
                                        ![c].chunks = <<>>]
                /\ UNCHANGED wire
    /\ UNCHANGED <<busVars, tVars, gwVars, smVars, callerVars, libVars>>

\* Send has returned; the caller may call again.
SendReturn(c) ==
    /\ send[c].pc = "done"
    /\ send' = [send EXCEPT ![c] = NoSend]
    /\ UNCHANGED wire
    /\ UNCHANGED <<busVars, tVars, gwVars, smVars, callerVars, libVars>>

\* ------------------------------------------------------------------------
\* StateManager and store: message records
\* ------------------------------------------------------------------------

\* store.DB.InsertMessage: the messages table gives the row the next id of
\* its AUTOINCREMENT key and returns it.
InsertMessage(rows, msg) ==
    LET id == Len(rows) + 1 IN
    [id |-> id, rows |-> Append(rows, [msg EXCEPT !.ID = id])]

\* Manager.RecordMessage passes the record on to the store.
RecordMessage(rows, msg) == InsertMessage(rows, msg)

\* ------------------------------------------------------------------------
\* StateManager: the node cache
\* ------------------------------------------------------------------------

Upserters == {"u1", "u2"}

\* Node (ShortName, Hardware and Role, which no method reads or writes, are
\* left out). LastSeen 0 is the zero time.
Node(id, hex, name) ==
    [NodeID |-> id, NodeIDHex |-> hex, LongName |-> name, LastSeen |-> 0,
     BatteryLevel |-> 0, Voltage |-> 0, Lat |-> 0, Lon |-> 0, Alt |-> 0]

NoUpsert == [pc |-> "idle", ref |-> 0, snap |-> <<>>, dbOk |-> TRUE,
             err |-> "none"]

\* state.New on an empty peers table.
StateInit ==
    /\ heap = <<>>
    /\ nodes = <<>>
    /\ smMu = "free"
    /\ up = [c \in Upserters |-> NoUpsert]
    /\ smNow = 0
    /\ peers = <<>>
    /\ listed = <<>>

\* m[k] = v on a map
Put(m, k, v) == [i \in DOMAIN m \cup {k} |-> IF i = k THEN v ELSE m[i]]

\* UpsertNode's test n.NodeID == 0, negated.
ValidIDAny(id) == TRUE
ValidID(id) == id # 0

\* UpsertNode, first part, on a Node object the caller has just made: reject
\* id 0; else stamp LastSeen and fill NodeIDHex if it is empty.
UpsertBegin(c, id, hex, name) ==
    /\ up[c].pc = "idle"
    /\ LET ref == Len(heap) + 1
           n == Node(id, hex, name)
       IN  IF ~ValidID(id)
           THEN /\ heap' = Append(heap, n)
                /\ up' = [up EXCEPT ![c] = [NoUpsert EXCEPT
                              !.pc = "done", !.ref = ref,
                              !.err = "node ID must not be zero"]]
                /\ UNCHANGED smNow
           ELSE /\ heap' = Append(heap,
                              [n EXCEPT !.LastSeen = smNow + 1,
                                        !.NodeIDHex = IF hex = <<>>
                                                      THEN HexID(id) ELSE hex])
                /\ up' = [up EXCEPT ![c] = [NoUpsert EXCEPT
                              !.pc = "lock", !.ref = ref]]
                /\ smNow' = smNow + 1
    /\ UNCHANGED <<nodes, smMu, peers>>
    /\ UNCHANGED <<busVars, tVars, gwVars, sendVars, callerVars, libVars>>

\* m.mu.Lock() can be taken.
SmCanLockNoWait == TRUE
SmCanLock == smMu = "free"

\* UpsertNode: m.mu.Lock(); the map assignment starts from the map as it is.
UpsertLock(c) ==
    /\ up[c].pc = "lock"
    /\ SmCanLock
    /\ smMu' = c
    /\ up' = [up EXCEPT ![c].pc = "put", ![c].snap = nodes]
    /\ UNCHANGED <<heap, nodes, smNow, peers>>
    /\ UNCHANGED <<busVars, tVars, gwVars, sendVars, callerVars, libVars>>

\* UpsertNode: m.nodes[n.NodeID] = n; m.mu.Unlock()
UpsertPut(c) ==
    /\ up[c].pc = "put"
    /\ nodes' = Put(up[c].snap, heap[up[c].ref].NodeID, up[c].ref)
    /\ smMu' = "free"
    /\ up' = [up EXCEPT ![c].pc = "persist", ![c].snap = <<>>]
    /\ UNCHANGED <<heap, smNow, peers>>
    /\ UNCHANGED <<busVars, tVars, gwVars, sendVars, callerVars, libVars>>

\* The row INSERT ... ON CONFLICT(node_id) DO UPDATE leaves for node n.
PeerRow(n) == [display_name |-> n.LongName, last_seen |-> n.LastSeen]

\* What UpsertNode returns after m.db.Exec.
ExecErrorDropped(ok) == "none"
ExecError(ok) == IF ok THEN "none" ELSE "exec failed"

\* UpsertNode: m.db.Exec of the insert-or-update, outside the lock; its error
\* is what UpsertNode returns.
UpsertPersist(c, ok) ==
    /\ up[c].pc = "persist"
    /\ LET n == heap[up[c].ref] IN
       peers' = IF ok THEN Put(peers, n.NodeIDHex, PeerRow(n)) ELSE peers
    /\ up' = [up EXCEPT ![c].pc = "done", ![c].dbOk = ok,
                        ![c].err = ExecError(ok)]
    /\ UNCHANGED <<heap, nodes, smMu, smNow>>
    /\ UNCHANGED <<busVars, tVars, gwVars, sendVars, callerVars, libVars>>

\* UpsertNode has returned; the caller may call again.
UpsertReturn(c) ==
    /\ up[c].pc = "done"
    /\ up' = [up EXCEPT ![c] = NoUpsert]
    /\ UNCHANGED <<heap, nodes, smMu, smNow, peers>>
    /\ UNCHANGED <<busVars, tVars, gwVars, sendVars, callerVars, libVars>>

\* GetNode: the cached object's value and whether the id is known.
GetNode(id) ==
    IF id \in DOMAIN nodes
    THEN [node |-> heap[nodes[id]], ok |-> TRUE]
    ELSE [node |-> Node(0, <<>>, <<>>), ok |-> FALSE]

\* NodeCount: len(m.nodes)
NodeCount == Cardinality(DOMAIN nodes)

\* ListNodes: a copy of every cached node (here by id; the order of the
\* slice is the map's iteration order, which Go leaves unspecified).
ListNodes == [id \in DOMAIN nodes |-> heap[nodes[id]]]

\* What UpdateTelemetry writes into a known node at time t.
WithTelemetryNoStamp(n, battery, voltage, t) ==
    [n EXCEPT !.BatteryLevel = battery, !.Voltage = voltage]
WithTelemetry(n, battery, voltage, t) ==
    [n EXCEPT !.BatteryLevel = battery, !.Voltage = voltage, !.LastSeen = t]

\* UpdateTelemetry, under m.mu.Lock(): a known node gets the battery level,
\* the voltage and a new LastSeen; an unknown id is ignored.
UpdateTelemetry(id, battery, voltage) ==
    /\ SmCanLock
    /\ IF id \in DOMAIN nodes
       THEN /\ heap' = [heap EXCEPT ![nodes[id]] =
                           WithTelemetry(@, battery, voltage, smNow + 1)]
            /\ smNow' = smNow + 1
       ELSE UNCHANGED <<heap, smNow>>
    /\ UNCHANGED <<nodes, smMu, up, peers>>
    /\ UNCHANGED <<busVars, tVars, gwVars, sendVars, callerVars, libVars>>

\* What UpdatePosition writes into a known node at time t.
WithPosition(n, lat, lon, alt, t) ==
    [n EXCEPT !.Lat = lat, !.Lon = lon, !.Alt = alt, !.LastSeen = t]

\* UpdatePosition, under m.mu.Lock(): a known node gets the coordinates and a
\* new LastSeen; an unknown id is ignored.
UpdatePosition(id, lat, lon, alt) ==
    /\ SmCanLock
    /\ IF id \in DOMAIN nodes
       THEN /\ heap' = [heap EXCEPT ![nodes[id]] =
                           WithPosition(@, lat, lon, alt, smNow + 1)]
            /\ smNow' = smNow + 1
       ELSE UNCHANGED <<heap, smNow>>
    /\ UNCHANGED <<nodes, smMu, up, peers>>
    /\ UNCHANGED <<busVars, tVars, gwVars, sendVars, callerVars, libVars>>

\* An element of the slice ListNodes returns: ref 0 is an object of the
\* caller's own holding the value node, any other ref is the cached object
\* itself.
ListElemShared(r) == [ref |-> r, node |-> heap[r]]
ListElem(r) == [ref |-> 0, node |-> heap[r]]

\* The value a caller reads through an element of a returned list.
ElemValue(e) == IF e.ref = 0 THEN e.node ELSE heap[e.ref]

\* ListNodes, under m.mu.RLock(): copy := *n; out = append(out, &copy) for
\* every cached node.
ListNodesCall ==
    /\ SmCanLock
    /\ listed' = [id \in DOMAIN nodes |-> ListElem(nodes[id])]
    /\ UNCHANGED smVars
    /\ UNCHANGED <<busVars, tVars, gwVars, sendVars, libVars>>

\* The name a caller writes into a node it holds.
Renamed == <<"m">>

\* The caller of ListNodes writes into the element for id of the list it got.
MutateListed(id) ==
    /\ id \in DOMAIN listed
    /\ ElemValue(listed[id]).LongName # Renamed
    /\ IF listed[id].ref = 0
       THEN /\ listed' = [listed EXCEPT ![id].node.LongName = Renamed]
            /\ UNCHANGED smVars
       ELSE /\ heap' = [heap EXCEPT ![listed[id].ref].LongName = Renamed]
            /\ UNCHANGED <<nodes, smMu, up, smNow, peers, listed>>
    /\ UNCHANGED <<busVars, tVars, gwVars, sendVars, libVars>>

\* A caller writes into a node object it holds a pointer to: the one it
\* passed to an UpsertNode call that has returned, or the one GetNode
\* returned.
MutateNode(r) ==
    /\ r \in 1..Len(heap)
    /\ heap[r].NodeID # 0
    /\ \/ \A c \in Upserters : up[c].ref # r
       \/ \E id \in DOMAIN nodes : GetNode(id).ok /\ nodes[id] = r
    /\ heap[r].LongName # Renamed
    /\ heap' = [heap EXCEPT ![r].LongName = Renamed]
    /\ UNCHANGED <<nodes, smMu, up, smNow, peers, listed>>
    /\ UNCHANGED <<busVars, tVars, gwVars, sendVars, libVars>>

\* The value of a hexadecimal digit, -1 for any other character.
HexVal(x) ==
    IF \E d \in 1..16 : HexDigits[d] = x
    THEN (CHOOSE d \in 1..16 : HexDigits[d] = x) - 1
    ELSE -1

\* The hexadecimal digits s starts with.
RECURSIVE HexPrefix(_)
HexPrefix(s) ==
    IF s = <<>> \/ HexVal(Head(s)) < 0 THEN <<>>
    ELSE <<Head(s)>> \o HexPrefix(Tail(s))

\* The number a sequence of hexadecimal digits denotes.
RECURSIVE HexNumber(_)
HexNumber(ds) ==
    IF ds = <<>> THEN 0
    ELSE 16 * HexNumber(SubSeq(ds, 1, Len(ds) - 1)) + HexVal(ds[Len(ds)])

\* loadNodes: var nodeNum uint32; fmt.Sscanf(nodeIDHex, "!%x", &nodeNum) with
\* the error ignored. The text must start with "!" and go on with at least
\* one hexadecimal digit; the digits are read as far as they go and what
\* follows them is not looked at; without a match nodeNum stays 0 (so it
\* does for more digits than a uint32 holds, which no input here has).
ScanNodeNum(s) ==
    IF s # <<>> /\ Head(s) = "!" /\ HexPrefix(Tail(s)) # <<>>
          /\ Len(HexPrefix(Tail(s))) <= 8
    THEN HexNumber(HexPrefix(Tail(s)))
    ELSE 0

\* loadNodes: the Node made from the row of the peers table with key hex.
LoadedNode(hex) ==
    [Node(ScanNodeNum(hex), hex, peers[hex].display_name)
        EXCEPT !.LastSeen = peers[hex].last_seen]

\* state.New after the process has stopped and started again on the same
\* database: the cache is made from the rows of the peers table. Rows that
\* give the same number overwrite one another in the order the query
\* returns them, which is any order.
Restart ==
    /\ \A c \in Upserters : up[c].pc = "idle"
    /\ peers # <<>>
    /\ LET nums == {ScanNodeNum(h) : h \in DOMAIN peers}
           rank(n) == Cardinality({k \in nums : k <= n})
       IN  \E last \in [nums -> DOMAIN peers] :
              /\ \A n \in nums : ScanNodeNum(last[n]) = n
              /\ heap' = [r \in 1..Cardinality(nums) |->
                            LoadedNode(last[CHOOSE n \in nums : rank(n) = r])]
              /\ nodes' = [n \in nums |-> rank(n)]
    /\ smMu' = "free"
    /\ listed' = <<>>
    /\ UNCHANGED <<up, smNow, peers>>
    /\ UNCHANGED <<busVars, tVars, gwVars, sendVars, libVars>>

\* ------------------------------------------------------------------------
\* replication.Manager: the peer registry
\* ------------------------------------------------------------------------

\* A Peer.
Peer(id, name, seen) == [NodeID |-> id, DisplayName |-> name, LastSeen |-> seen]

NoAddPeer == [id |-> "", err |-> "none"]

\* replication.New: no peers.
ReplInit == repl = [peers |-> <<>>, last |-> NoAddPeer, calls |-> 0]

\* AddPeer's test len(m.peers) >= m.cfg.MaxPeers
AtLimit(ps, id) == Cardinality(DOMAIN ps) >= MaxPeers

\* AddPeer, under m.mu.Lock(): the limit error when the registry is at the
\* limit, else m.peers[p.NodeID] = p.
AddPeer(p) ==
    /\ IF AtLimit(repl.peers, p.NodeID)
       THEN repl' = [repl EXCEPT
                        !.last = [id |-> p.NodeID, err |-> "peer limit reached"],
                        !.calls = @ + 1]
       ELSE repl' = [repl EXCEPT
                        !.peers = Put(@, p.NodeID, p),
                        !.last = [id |-> p.NodeID, err |-> "none"],
                        !.calls = @ + 1]
    /\ UNCHANGED <<busVars, tVars, gwVars, sendVars, smVars, callerVars, codec, adapterVars>>

\* RemovePeer, under m.mu.Lock(): delete(m.peers, nodeID)
RemovePeer(id) ==
    /\ id \in DOMAIN repl.peers
    /\ repl' = [repl EXCEPT
                   !.peers = [k \in DOMAIN @ \ {id} |-> @[k]],
                   !.last = NoAddPeer]
    /\ UNCHANGED <<busVars, tVars, gwVars, sendVars, smVars, callerVars, codec, adapterVars>>

\* PeerCount: len(m.peers)
PeerCount == Cardinality(DOMAIN repl.peers)

\* ------------------------------------------------------------------------
\* GatewayService
\* ------------------------------------------------------------------------

NoMessage == [ID |-> 0, MeshID |-> <<>>, FromNode |-> <<>>, ToNode |-> <<>>,
              Channel |-> 0, Payload |-> <<>>, ReceivedAt |-> 0]

GatewayInit ==
    /\ gwCtxDone = FALSE
    /\ startPc = "connect"
    /\ srv = "new"
    /\ ingestPc = "none"
    /\ ingestMsg = NoMessage
    /\ db = <<>>
    /\ ingested = <<>>

\* The context given to Start is cancelled.
Cancel ==
    /\ ~gwCtxDone
    /\ gwCtxDone' = TRUE
    /\ UNCHANGED <<startPc, srv, ingestPc, ingestMsg, db, ingested>>
    /\ UNCHANGED <<busVars, tVars, otherVars>>

\* Start: g.transport.Connect()
StartConnect ==
    /\ startPc = "connect"
    /\ Connect
    /\ startPc' = "launch"
    /\ UNCHANGED <<gwCtxDone, srv, ingestPc, ingestMsg, db, ingested>>
    /\ UNCHANGED <<busVars, otherVars>>

\* Start: go g.ingestLoop(ctx); net.Listen; on success go Serve, on failure
\* return the error.
StartLaunch(listenOk) ==
    /\ startPc = "launch"
    /\ ingestPc' = "recv"
    /\ IF listenOk
       THEN srv' = "serving" /\ startPc' = "serving"
       ELSE srv' = "new" /\ startPc' = "returned"
    /\ UNCHANGED <<gwCtxDone, ingestMsg, db, ingested>>
    /\ UNCHANGED <<busVars, tVars, otherVars>>

\* Serve returns an error other than ErrServerClosed: it is put on srvErr.
ServeFails ==
    /\ srv = "serving"
    /\ srv' = "failed"
    /\ UNCHANGED <<gwCtxDone, startPc, ingestPc, ingestMsg, db, ingested>>
    /\ UNCHANGED <<busVars, tVars, otherVars>>

\* Start's select, case <-ctx.Done(): call g.transport.Disconnect().
StartCancelled ==
    /\ startPc = "serving"
    /\ gwCtxDone
    /\ startPc' = "disconnect"
    /\ disc' = [disc EXCEPT !["start"] = "called"]
    /\ UNCHANGED <<gwCtxDone, srv, ingestPc, ingestMsg, db, ingested>>
    /\ UNCHANGED <<tState, tMu, tConn, tCancel, wg, ctxDone, connOpen, rd,
                   frames, nRead, readLog, fullLog, cancelLog>>
    /\ UNCHANGED <<busVars, otherVars>>

\* Start's select, case err := <-srvErr: return it.
StartServeError ==
    /\ startPc = "serving"
    /\ srv = "failed"
    /\ startPc' = "returned"
    /\ UNCHANGED <<gwCtxDone, srv, ingestPc, ingestMsg, db, ingested>>
    /\ UNCHANGED <<busVars, tVars, otherVars>>

\* Disconnect has returned: Start calls g.apiServer.Shutdown with a context
\* that expires after 10 s.
StartShutdown ==
    /\ startPc = "disconnect"
    /\ disc["start"] = "returned"
    /\ startPc' = "shutdown"
    /\ srv' = IF srv = "serving" THEN "draining" ELSE srv
    /\ UNCHANGED <<gwCtxDone, ingestPc, ingestMsg, db, ingested>>
    /\ UNCHANGED <<busVars, tVars, otherVars>>

\* Shutdown returns: the server has drained or the 10 s have passed.
StartReturn ==
    /\ startPc = "shutdown"
    /\ startPc' = "returned"
    /\ srv' = IF srv = "draining" THEN "closed" ELSE srv
    /\ UNCHANGED <<gwCtxDone, ingestPc, ingestMsg, db, ingested>>
    /\ UNCHANGED <<busVars, tVars, otherVars>>

\* Disconnect as Start calls it.
StartDisconnectBegin ==
    /\ DisconnectBegin("start")
    /\ UNCHANGED <<busVars, gwVars, otherVars>>

StartDisconnectEnd ==
    /\ DisconnectEnd("start")
    /\ UNCHANGED <<busVars, gwVars, otherVars>>

\* ingestLoop's select, case <-ctx.Done(): return.
IngestCancelled ==
    /\ ingestPc = "recv"
    /\ gwCtxDone
    /\ ingestPc' = "done"
    /\ UNCHANGED <<gwCtxDone, startPc, srv, ingestMsg, db, ingested>>
    /\ UNCHANGED <<busVars, tVars, otherVars>>

\* The bytes ingestLoop hands to DecodeFromRadio for a received frame.
WithPrefix(data) == <<0, 0, 0, 0>> \o data

\* The message record ingestLoop builds from a decoded packet.
MessageOf(pkt, frame) ==
    [ID |-> 0,
     MeshID |-> Decimal(pkt.ID),
     FromNode |-> HexID(pkt.From),
     ToNode |-> HexID(pkt.To),
     Channel |-> pkt.Channel,
     Payload |-> pkt.Payload,
     ReceivedAt |-> frame.Timestamp]

\* ingestLoop's select, case frame := <-g.transport.Receive(): decode the
\* frame; on a decode error skip it, else build the message record.
IngestRecv ==
    /\ ingestPc = "recv"
    /\ frames # <<>>
    /\ LET frame == Head(frames)
           fr == DecodeFromRadio(WithPrefix(frame.Data))
       IN  /\ frames' = Tail(frames)
           /\ ingested' = Append(ingested, frame)
           /\ IF fr.err # "none"
              THEN UNCHANGED <<ingestPc, ingestMsg>>
              ELSE /\ ingestMsg' = MessageOf(fr.Packet, frame)
                   /\ ingestPc' = "store"
    /\ UNCHANGED <<gwCtxDone, startPc, srv, db>>
    /\ UNCHANGED <<tState, tMu, tConn, tCancel, wg, ctxDone, connOpen, rd, disc,
                   nRead, readLog, fullLog, cancelLog>>
    /\ UNCHANGED <<busVars, otherVars>>

\* Where ingestLoop goes after RecordMessage returned.
AfterStoreAlwaysPublish(ok) == "publish"
AfterStoreExitOnError(ok) == IF ok THEN "publish" ELSE "done"
AfterStore(ok) == IF ok THEN "publish" ELSE "recv"

\* g.stateStore.RecordMessage(msg): on an error skip the record, else set
\* msg.ID to the identifier returned.
IngestStore(ok) ==
    /\ ingestPc = "store"
    /\ IF ok
       THEN LET res == RecordMessage(db, ingestMsg) IN
            /\ db' = res.rows
            /\ ingestMsg' = [ingestMsg EXCEPT !.ID = res.id]
       ELSE UNCHANGED <<db, ingestMsg>>
    /\ ingestPc' = AfterStore(ok)
    /\ UNCHANGED <<gwCtxDone, startPc, srv, ingested>>
    /\ UNCHANGED <<busVars, tVars, otherVars>>

\* g.eventBus.PublishMessage(msg)
IngestPublish ==
    /\ ingestPc = "publish"
    /\ PublishMessage("ingest", ingestMsg)
    /\ ingestPc' = "publishing"
    /\ UNCHANGED <<gwCtxDone, startPc, srv, ingestMsg, db, ingested>>
    /\ UNCHANGED <<tVars, otherVars>>

IngestPublishSend(s) ==
    /\ ingestPc = "publishing"
    /\ PublishSend("ingest", s)
    /\ UNCHANGED <<gwVars, tVars, otherVars>>

\* PublishMessage returned: the next iteration.
IngestPublished ==
    /\ ingestPc = "publishing"
    /\ PublishEnd("ingest")
    /\ ingestPc' = "recv"
    /\ UNCHANGED <<gwCtxDone, startPc, srv, ingestMsg, db, ingested>>
    /\ UNCHANGED <<tVars, otherVars>>

\* ------------------------------------------------------------------------
\* Spec: the gateway service, from Start to its return
\* ------------------------------------------------------------------------

Init ==
    /\ BusInit /\ TransportInit /\ GatewayInit /\ SendInit /\ StateInit
    /\ CodecInit /\ ReplInit /\ AdapterInit

\* "hello", repeated as far as needed
Hello == <<104, 101, 108, 108, 111>>
Payload(n) == [i \in 1..n |-> Hello[((i - 1) % 5) + 1]]

\* The payloads the link delivers, and the headers with a length that
\* readFrames rejects.
LinkPayloads == {Payload(1), Payload(MaxPayloadLen)}
BadHeaders == {PutUint32(0), PutUint32(MaxFrameLen + 1)}

\* The link delivers one of the payloads behind a header with its length.
LinkFrame(r) ==
    \E payload \in LinkPayloads : ReadFrame(r, PutUint32(Len(payload)), payload)

\* The link delivers a header with a length that readFrames rejects.
LinkBadHeader(r) == \E hdr \in BadHeaders : ReadFrame(r, hdr, <<>>)

SelectCases == {"send", "done", "default"}

\* Start, the reader task of its one connection, the ingest loop and the
\* consumers of the bus, up to the cancellation of Start's context.
Next ==
    \/ StartConnect
    \/ \E listenOk \in BOOLEAN : StartLaunch(listenOk)
    \/ Cancel
    \/ StartCancelled
    \/ StartDisconnectBegin
    \/ IngestCancelled
    \/ IngestRecv
    \/ \E ok \in BOOLEAN : IngestStore(ok)
    \/ IngestPublish
    \/ \E s \in Subscribers : IngestPublishSend(s)
    \/ IngestPublished
    \/ \E r \in Readers : ReaderTop(r)
    \/ \E r \in Readers : ReaderDial(r, TRUE)
    \/ \E r \in Readers : ReaderInstall(r)
    \/ \E r \in Readers : ReaderConnected(r)
    \/ \E r \in Readers : nRead < MaxFrames /\ LinkFrame(r)
    \/ \E r \in Readers, choice \in SelectCases : ReaderEnqueue(r, choice)
    \/ \E r \in Readers : ReadFailsClosed(r)
    \/ \E s \in Subscribers : Subscribe(s)
    \/ \E s \in Subscribers : UnsubDelete(s)
    \/ \E s \in Subscribers : UnsubClose(s)
    \/ \E s \in Subscribers : Consume(s)

Spec == Init /\ [][Next]_vars

\* ------------------------------------------------------------------------
\* LifeSpec: the life of the transport under Start: dial failures, lost
\* connections, rejected headers, cancellation and Disconnect. No consumer
\* subscribes, and the link delivers one-byte frames.
\* ------------------------------------------------------------------------

\* The steps of Start, with the Disconnect it calls.
LifeStartStep ==
    \/ StartConnect
    \/ \E listenOk \in BOOLEAN : StartLaunch(listenOk)
    \/ StartCancelled
    \/ StartServeError
    \/ StartDisconnectBegin
    \/ StartDisconnectEnd
    \/ StartShutdown
    \/ StartReturn

\* The steps of ingestLoop; the bus has no subscriber to send to.
LifeIngestStep ==
    \/ IngestCancelled
    \/ IngestRecv
    \/ \E ok \in BOOLEAN : IngestStore(ok)
    \/ IngestPublish
    \/ IngestPublished

\* The steps of reader task r that do not wait for the link.
LifeReaderStep(r) ==
    \/ ReaderTop(r)
    \/ \E ok \in BOOLEAN : ReaderDial(r, ok)
    \/ ReaderBackoffCancelled(r)
    \/ ReaderBackoffElapsed(r)
    \/ ReaderInstall(r)
    \/ ReaderConnected(r)
    \/ ReadFailsClosed(r)
    \/ \E choice \in SelectCases : ReaderEnqueue(r, choice)
    \/ ReaderUninstall(r)
    \/ ReaderLost(r)

\* The steps of the environment: the link, the cancellation of Start's
\* context and the failure of the HTTP server.
LifeEnvStep ==
    \/ \E r \in Readers :
          nRead < MaxLifeFrames /\ ReadFrame(r, PutUint32(1), Payload(1))
    \/ \E r \in Readers : LinkBadHeader(r)
    \/ \E r \in Readers : ReadFailsLink(r)
    \/ Cancel
    \/ ServeFails

LifeNext ==
    \/ LifeStartStep
    \/ LifeIngestStep
    \/ \E r \in Readers : LifeReaderStep(r)
    \/ LifeEnvStep

LifeSpec == Init /\ [][LifeNext]_vars

\* The scheduler runs every task that can take a step: Start, ingestLoop
\* and each reader task. Nothing is assumed of the environment.
FairLifeSpec ==
    /\ LifeSpec
    /\ WF_vars(LifeStartStep)
    /\ WF_vars(LifeIngestStep)
    /\ \A r \in Readers : WF_vars(LifeReaderStep(r))

\* ------------------------------------------------------------------------
\* BackoffSpec: LifeSpec with the consecutive dial failures counted exactly,
\* up to MaxFails of them in a row
\* ------------------------------------------------------------------------

BackoffReaderStep(r) ==
    \/ ReaderTop(r)
    \/ rd[r].fails < MaxFails /\ ReaderDial(r, FALSE)
    \/ ReaderDial(r, TRUE)
    \/ ReaderBackoffCancelled(r)
    \/ ReaderBackoffElapsed(r)
    \/ ReaderInstall(r)
    \/ ReaderConnected(r)
    \/ ReadFailsClosed(r)
    \/ \E choice \in SelectCases : ReaderEnqueue(r, choice)
    \/ ReaderUninstall(r)
    \/ ReaderLost(r)

BackoffNext ==
    \/ LifeStartStep
    \/ LifeIngestStep
    \/ \E r \in Readers : BackoffReaderStep(r)
    \/ LifeEnvStep

BackoffSpec == Init /\ [][BackoffNext]_vars

\* ------------------------------------------------------------------------
\* SendSpec: two tasks that call Send, at any point of the life of the
\* transport under Start; the link delivers nothing
\* ------------------------------------------------------------------------

\* The payload each caller sends.
SendData == [c \in Senders |-> IF c = "a" THEN <<1>> ELSE <<2, 2>>]

SendReaderStep(r) ==
    \/ ReaderTop(r)
    \/ \E ok \in BOOLEAN : ReaderDial(r, ok)
    \/ ReaderBackoffCancelled(r)
    \/ ReaderBackoffElapsed(r)
    \/ ReaderInstall(r)
    \/ ReaderConnected(r)
    \/ ReadFailsLink(r)
    \/ ReadFailsClosed(r)
    \/ ReaderUninstall(r)
    \/ ReaderLost(r)

SendNext ==
    \/ StartConnect
    \/ StartLaunch(TRUE)
    \/ Cancel
    \/ StartCancelled
    \/ StartDisconnectBegin
    \/ StartDisconnectEnd
    \/ StartShutdown
    \/ StartReturn
    \/ IngestCancelled
    \/ \E r \in Readers : SendReaderStep(r)
    \/ \E c \in Senders :
          /\ tConn # 0 => Len(wire[tConn]) < MaxWireBytes
          /\ SendBegin(c, SendData[c])
    \/ \E c \in Senders : SendWrite(c)
    \/ \E c \in Senders : SendReturn(c)

SendSpec == Init /\ [][SendNext]_vars

\* ------------------------------------------------------------------------
\* StateSpec: callers of the state manager's node operations, concurrently
\* ------------------------------------------------------------------------

\* The node ids the callers use (0 is the invalid one) and the names, battery
\* levels, voltages (in tenths of a volt) and coordinates they pass.
NodeIDs == {0, 7, 8}
Names == {<<"n">>}
Batteries == {42}
Voltages == {37}
Position == [lat |-> 60, lon |-> 25, alt |-> 10]

\* The updates of cached nodes made so far: the readings of the clock that
\* are not the stamp of an UpsertNode call.
UpdatesMade == smNow - Cardinality({r \in 1..Len(heap) : heap[r].NodeID # 0})

StateNext ==
    \/ \E c \in Upserters, id \in NodeIDs, name \in Names :
          Len(heap) < MaxNodes /\ UpsertBegin(c, id, <<>>, name)
    \/ \E c \in Upserters : UpsertLock(c)
    \/ \E c \in Upserters : UpsertPut(c)
    \/ \E c \in Upserters, ok \in BOOLEAN : UpsertPersist(c, ok)
    \/ \E c \in Upserters : UpsertReturn(c)
    \/ \E id \in NodeIDs, battery \in Batteries, voltage \in Voltages :
          UpdatesMade < MaxUpdates /\ UpdateTelemetry(id, battery, voltage)
    \/ \E id \in NodeIDs :
          UpdatesMade < MaxUpdates
             /\ UpdatePosition(id, Position.lat, Position.lon, Position.alt)

StateSpec == Init /\ [][StateNext]_vars

\* ------------------------------------------------------------------------
\* CallerSpec: StateSpec's calls, with callers that list the nodes and write
\* into the node objects they hold
\* ------------------------------------------------------------------------

CallerNext ==
    \/ \E c \in {"u1"}, id \in NodeIDs \ {0}, name \in Names :
          Len(heap) < MaxCallerNodes /\ UpsertBegin(c, id, <<>>, name)
    \/ \E c \in Upserters : UpsertLock(c)
    \/ \E c \in Upserters : UpsertPut(c)
    \/ \E c \in Upserters, ok \in BOOLEAN : UpsertPersist(c, ok)
    \/ \E c \in Upserters : UpsertReturn(c)
    \/ \E id \in NodeIDs, battery \in Batteries, voltage \in Voltages :
          UpdatesMade < MaxUpdates /\ UpdateTelemetry(id, battery, voltage)
    \/ \E id \in NodeIDs :
          UpdatesMade < MaxUpdates
             /\ UpdatePosition(id, Position.lat, Position.lon, Position.alt)
    \/ ListNodesCall
    \/ \E id \in NodeIDs : MutateListed(id)
    \/ \E r \in 1..MaxCallerNodes : MutateNode(r)

CallerSpec == Init /\ [][CallerNext]_vars

\* ------------------------------------------------------------------------
\* HydrateSpec: UpsertNode calls with and without a hex id of the caller's,
\* and restarts that load the cache from the peers table
\* ------------------------------------------------------------------------

\* The NodeIDHex of the nodes passed to UpsertNode: empty, "!7", "n7".
HexInputs == {<<>>, <<"!", "7">>, <<"n", "7">>}

HydrateNext ==
    \/ \E c \in Upserters, id \in NodeIDs, hex \in HexInputs, name \in Names :
          /\ smNow < MaxHydrateUpserts
          /\ Len(heap) < MaxNodes
          /\ UpsertBegin(c, id, hex, name)
    \/ \E c \in Upserters : UpsertLock(c)
    \/ \E c \in Upserters : UpsertPut(c)
    \/ \E c \in Upserters, ok \in BOOLEAN : UpsertPersist(c, ok)
    \/ \E c \in Upserters : UpsertReturn(c)
    \/ Restart

HydrateSpec == Init /\ [][HydrateNext]_vars

\* ------------------------------------------------------------------------
\* CodecSpec: raw inputs to DecodeFromRadio, decoded and encoded again
\* ------------------------------------------------------------------------

\* The lengths the headers of the raw inputs declare: the small ones, and one
\* for each of the three higher bytes of the header.
DeclaredLengths == 0..MaxCodecLen \cup {256, 65536, 16777216}

CodecNext ==
    \/ \E hdr \in 0..4, L \in DeclaredLengths, A \in 0..MaxCodecLen :
          CodecFeed(hdr, L, A)
    \/ CodecDecode
    \/ CodecEncode
    \/ CodecDone

CodecSpec == Init /\ [][CodecNext]_vars

\* ------------------------------------------------------------------------
\* ConnectSpec: a caller of the transport's Connect and Disconnect
\* ------------------------------------------------------------------------

\* The caller calls Connect.
ApiConnect ==
    /\ Connect
    /\ UNCHANGED <<busVars, gwVars, otherVars>>

\* The caller calls Disconnect.
ApiDisconnect ==
    /\ disc["api"] = "idle"
    /\ disc' = [disc EXCEPT !["api"] = "called"]
    /\ UNCHANGED <<tState, tMu, tConn, tCancel, wg, ctxDone, connOpen, rd,
                   frames, nRead, readLog, fullLog, cancelLog>>
    /\ UNCHANGED <<busVars, gwVars, otherVars>>

ApiDisconnectBegin ==
    /\ DisconnectBegin("api")
    /\ UNCHANGED <<busVars, gwVars, otherVars>>

ApiDisconnectEnd ==
    /\ DisconnectEnd("api")
    /\ UNCHANGED <<busVars, gwVars, otherVars>>

\* The steps of reader task r that do not wait for the link.
ConnectReaderStep(r) ==
    \/ ReaderTop(r)
    \/ \E ok \in BOOLEAN :
          (ok \/ rd[r].fails < MaxConnectFails) /\ ReaderDial(r, ok)
    \/ ReaderBackoffCancelled(r)
    \/ ReaderBackoffElapsed(r)
    \/ ReaderInstall(r)
    \/ ReaderConnected(r)
    \/ ReadFailsClosed(r)
    \/ \E choice \in SelectCases : ReaderEnqueue(r, choice)
    \/ ReaderUninstall(r)
    \/ ReaderLost(r)

ConnectNext ==
    \/ ApiConnect
    \/ ApiDisconnect
    \/ ApiDisconnectBegin
    \/ ApiDisconnectEnd
    \/ \E r \in Readers : ConnectReaderStep(r)
    \/ \E r \in Readers : ReadWatcher(r)
    \/ \E r \in Readers :
          nRead < MaxLifeFrames /\ ReadFrame(r, PutUint32(1), Payload(1))
    \/ \E r \in Readers : ReadFailsLink(r)

ConnectSpec == Init /\ [][ConnectNext]_vars

\* ------------------------------------------------------------------------
\* ReplSpec: callers of the replication manager's AddPeer and RemovePeer
\* ------------------------------------------------------------------------

\* The node ids and display names of the peers passed to AddPeer.
PeerIDs == {"!0000000a", "!0000000b", "!0000000c"}
PeerNames == {"x", "y"}

\* The peers a caller can pass to AddPeer now, seen at the time of the call.
PeerInputs == {Peer(id, name, repl.calls + 1) : id \in PeerIDs, name \in PeerNames}

ReplNext ==
    \/ \E p \in PeerInputs : repl.calls < MaxAddPeers /\ AddPeer(p)
    \/ \E id \in PeerIDs : RemovePeer(id)

ReplSpec == Init /\ [][ReplNext]_vars

\* ------------------------------------------------------------------------
\* DurableSpec: concurrent UpsertNode calls whose durable writes all succeed
\* ------------------------------------------------------------------------

DurableNext ==
    \/ \E c \in Upserters, id \in NodeIDs, name \in Names \cup {Renamed} :
          Len(heap) < MaxNodes /\ UpsertBegin(c, id, <<>>, name)
    \/ \E c \in Upserters : UpsertLock(c)
    \/ \E c \in Upserters : UpsertPut(c)
    \/ \E c \in Upserters : UpsertPersist(c, TRUE)
    \/ \E c \in Upserters : UpsertReturn(c)

DurableSpec == Init /\ [][DurableNext]_vars

\* ------------------------------------------------------------------------
\* QueueSpec: one connection that delivers more frames than the receive
\* queue holds, to an ingest loop that receives a few of them
\* ------------------------------------------------------------------------

QueueNext ==
    \/ StartConnect
    \/ StartLaunch(TRUE)
    \/ Cancel
    \/ StartCancelled
    \/ StartDisconnectBegin
    \/ IngestCancelled
    \/ Len(ingested) < MaxIngest /\ IngestRecv
    \/ IngestStore(TRUE)
    \/ IngestPublish
    \/ IngestPublished
    \/ \E r \in Readers : ReaderTop(r)
    \/ \E r \in Readers : ReaderDial(r, TRUE)
    \/ \E r \in Readers : ReaderInstall(r)
    \/ \E r \in Readers : ReaderConnected(r)
    \/ \E r \in Readers :
          /\ nRead < tcpFrameChanSize + QueueOverflow
          /\ ReadFrame(r, PutUint32(1), Payload(1))
    \/ \E r \in Readers, choice \in SelectCases : ReaderEnqueue(r, choice)
    \/ \E r \in Readers : ReadFailsClosed(r)

QueueSpec == Init /\ [][QueueNext]_vars

\* ------------------------------------------------------------------------
\* BusSpec: the event bus under concurrent Subscribe, unsubscribe, Publish
\* ------------------------------------------------------------------------

\* A task calls PublishMessage (ingest) or PublishNodeUpdate (another caller).
BusPublish(p) ==
    /\ IF p = "ingest"
       THEN PublishMessage(p, nPub + 1)
       ELSE PublishNodeUpdate(p, nPub + 1)
    /\ UNCHANGED <<tVars, gwVars, otherVars>>

BusPublishSend(p, s) == PublishSend(p, s) /\ UNCHANGED <<tVars, gwVars, otherVars>>

BusPublishEnd(p) == PublishEnd(p) /\ UNCHANGED <<tVars, gwVars, otherVars>>

BusNext ==
    \/ \E s \in Subscribers : Subscribe(s)
    \/ \E s \in Subscribers : UnsubDelete(s)
    \/ \E s \in Subscribers : UnsubClose(s)
    \/ \E s \in Subscribers : Consume(s)
    \/ \E p \in Publishers : nPub < MaxPublish /\ BusPublish(p)
    \/ \E p \in Publishers, s \in Subscribers : BusPublishSend(p, s)
    \/ \E p \in Publishers : BusPublishEnd(p)

BusSpec == Init /\ [][BusNext]_vars

\* ------------------------------------------------------------------------
\* UnsubSpec: BusSpec with holders that call their unsubscribe function
\* again after it has returned
\* ------------------------------------------------------------------------

UnsubNext ==
    \/ \E s \in Subscribers : Subscribe(s)
    \/ \E s \in Subscribers : UnsubDelete(s)
    \/ \E s \in Subscribers : UnsubAgainDelete(s)
    \/ \E s \in Subscribers : UnsubClose(s)
    \/ \E s \in Subscribers : Consume(s)
    \/ \E p \in Publishers : nPub < MaxPublish /\ BusPublish(p)
    \/ \E p \in Publishers, s \in Subscribers : BusPublishSend(p, s)
    \/ \E p \in Publishers : BusPublishEnd(p)

UnsubSpec == Init /\ [][UnsubNext]_vars

\* ------------------------------------------------------------------------
\* AdapterSpec: one consumer behind the subscribe adapter, which reads a few
\* events and then stops reading, one publisher that publishes, while the
\* adapter is subscribed, more events than the outward stream holds, and
\* the consumer's call of unsub
\* ------------------------------------------------------------------------

AdapterNext ==
    \/ fwd.pc = "none" /\ Subscribe(AdapterSub)
    \/ AdapterStart
    \/ fwd.pc # "none" /\ UnsubDelete(AdapterSub)
    \/ UnsubClose(AdapterSub)
    \/ /\ nPub < AdapterChanCap + AdapterOverflow
       /\ fwd.pc # "none"
       /\ subPc[AdapterSub] = "subscribed"
       /\ BusPublish("ingest")
    \/ BusPublishSend("ingest", AdapterSub)
    \/ BusPublishEnd("ingest")
    \/ FwdRecv
    \/ FwdSend
    \/ FwdClose
    \/ Len(got[AdapterSub]) < MaxOutReads /\ OutConsume

AdapterSpec == Init /\ [][AdapterNext]_vars

\* Every task that can take a step eventually takes it, the publisher, the
\* forwarding task and the caller of unsub; the consumer owes nothing.
FairAdapterSpec ==
    /\ AdapterSpec
    /\ WF_vars(UnsubClose(AdapterSub))
    /\ WF_vars(BusPublishSend("ingest", AdapterSub))
    /\ WF_vars(BusPublishEnd("ingest"))
    /\ WF_vars(FwdRecv)
    /\ WF_vars(FwdSend)
    /\ WF_vars(FwdClose)

\* ------------------------------------------------------------------------
\* BusFullSpec: one publisher, a subscriber whose consumer is stalled and
\* one whose consumer reads, with more events than a buffer holds
\* ------------------------------------------------------------------------

StalledSubs == {"s1"}

BusFullNext ==
    \/ \E s \in Subscribers : nPub <= MaxLateJoin /\ Subscribe(s)
    \/ \E s \in Subscribers \ StalledSubs : Consume(s)
    \/ nPub < SubChanCap + Overflow /\ BusPublish("ingest")
    \/ \E s \in Subscribers : BusPublishSend("ingest", s)
    \/ BusPublishEnd("ingest")

BusFullSpec == Init /\ [][BusFullNext]_vars

\* ------------------------------------------------------------------------
\* Histories
\* ------------------------------------------------------------------------

\* What subscriber s has been delivered: what its consumer received followed
\* by what its stream still buffers.
Delivered(s) == got[s] \o ch[s].buf

\* ------------------------------------------------------------------------
\* Properties of the gateway service
\* ------------------------------------------------------------------------

\* C1: the message record the ingest loop hands to the store, and every row
\* stored, has the payload of the frame it was built from: the frame the
\* reader read at the time the record carries as ReceivedAt.
C1_StoredPayloadIsFramePayload ==
    /\ ingestPc = "store" =>
          /\ ingestMsg.ReceivedAt \in DOMAIN readLog
          /\ ingestMsg.Payload = readLog[ingestMsg.ReceivedAt].Data
    /\ \A i \in DOMAIN db :
          /\ db[i].ReceivedAt \in DOMAIN readLog
          /\ db[i].Payload = readLog[db[i].ReceivedAt].Data

\* The events the ingest loop has handed to Publish: the one of the call in
\* progress or last made, and every event a send was attempted for.
PublishedByIngest ==
    ({pub["ingest"].e} \ {NoEvent}) \cup UNION {Range(offered[s]) : s \in Subscribers}

\* C2: every event the ingest loop publishes is a message event whose record
\* is a row of the messages table under the identifier the event carries, and
\* so is the record of an iteration that is about to publish.
C2_StoredBeforePublished ==
    /\ \A e \in PublishedByIngest :
          /\ e.Type = EventMessage
          /\ e.Data.ID \in DOMAIN db
          /\ db[e.Data.ID] = e.Data
    /\ ingestPc \in {"publish", "publishing"} =>
          /\ ingestMsg.ID \in DOMAIN db
          /\ db[ingestMsg.ID] = ingestMsg

\* C2 witness: the store failed for the first frame and no event exists for
\* it; the second frame was stored as row 1 and its event was delivered.
C2_Witness ==
    /\ Len(ingested) = 2
    /\ Len(db) = 1
    /\ \E s \in Subscribers :
          \E e \in Range(Delivered(s)) : e.Data.ID = 1 /\ e.Data.ReceivedAt = 2

\* C3: a call to Disconnect eventually returns, and then no reader task is
\* left and the state is Disconnected.
C3_DisconnectReturns ==
    \A c \in Callers :
       (disc[c] = "called") ~>
          (disc[c] = "returned" /\ wg = 0 /\ tState = StateDisconnected)

\* C4: once the context is cancelled while Start is serving, Start eventually
\* returns.
C4_StartReturnsAfterCancel ==
    (gwCtxDone /\ startPc = "serving") ~> (startPc = "returned")

\* C4, the order of the shutdown: the server is told to shut down only after
\* Start's call to Disconnect has returned.
C4_DisconnectBeforeShutdown ==
    srv \in {"draining", "closed"} => disc["start"] = "returned"

\* ------------------------------------------------------------------------
\* Properties of the event bus
\* ------------------------------------------------------------------------

\* C5: once a subscriber's unsubscribe has returned, the subscriber is not in
\* the registry, its stream is closed, no Publish in progress still has it to
\* send to, no send on a closed stream has happened, and from then on no
\* Publish attempts a send on its stream.
C5_UnsubscribedState ==
    /\ busPanic # "send on closed channel"
    /\ \A s \in Subscribers :
          subPc[s] = "unsubscribed" =>
             /\ s \notin subs
             /\ ch[s].closed
             /\ \A p \in Publishers : s \notin pub[p].todo

C5_NoSendAfterUnsubscribe ==
    \A s \in Subscribers :
       subPc[s] = "unsubscribed" =>
          /\ offered'[s] = offered[s]
          /\ Len(ch'[s].buf) <= Len(ch[s].buf)

C5_UnsubscribeIsFinal ==
    [](C5_UnsubscribedState) /\ [][C5_NoSendAfterUnsubscribe]_vars

\* C5 witness: an unsubscribe has returned for a subscriber that was sent
\* events, while a Publish that began before is still ranging.
C5_Witness ==
    \E s \in Subscribers, p \in Publishers :
       /\ subPc[s] = "unsubscribed"
       /\ offered[s] # <<>>
       /\ pub[p].pc = "sending"
       /\ pub[p].todo # {}

\* The next step of a Publish in progress.
PublishStep(p) == (\E s \in Subscribers : PublishSend(p, s)) \/ PublishEnd(p)

\* A step in which a Publish attempted a send to s.
Offers(s) == Len(offered'[s]) = Len(offered[s]) + 1

\* C6: a Publish in progress can always take its next step (it waits for no
\* consumer); when a Publish has finished, the event was offered to every
\* subscriber of the registry it ranged over, whatever the other subscribers'
\* buffers held; every send attempted appends the event to that subscriber's
\* buffer if it holds fewer than 64 events and leaves the buffer as it is
\* otherwise, and changes no other subscriber's buffer.
C6_NeverWaits ==
    /\ \A p \in Publishers :
          (pub[p].pc = "sending" /\ busPanic = "none") => ENABLED PublishStep(p)
    /\ \A p \in Publishers :
          pub[p].pc = "idle" => \A s \in pub[p].snap : pub[p].e \in Range(offered[s])

C6_SendOrDrop ==
    \A s \in Subscribers :
       Offers(s) =>
          /\ IF Len(ch[s].buf) < SubChanCap
             THEN ch'[s].buf = Append(ch[s].buf, offered'[s][Len(offered'[s])])
             ELSE ch'[s].buf = ch[s].buf
          /\ \A t \in Subscribers \ {s} : ch'[t] = ch[t]

C6_PublishNeverBlocks == [](C6_NeverWaits) /\ [][C6_SendOrDrop]_vars

\* C6 witness: a finished Publish whose event was dropped for one subscriber,
\* its buffer holding 64 events, and delivered to another.
C6_Witness ==
    \E p \in Publishers, s, t \in Subscribers :
       /\ pub[p].pc = "idle"
       /\ {s, t} \subseteq pub[p].snap
       /\ Len(ch[s].buf) = SubChanCap
       /\ pub[p].e \notin Range(Delivered(s))
       /\ pub[p].e \in Range(Delivered(t))

\* The publisher of an event: ingest publishes the message events, the other
\* caller the node updates.
PublisherOf(e) == IF e.Type = EventMessage THEN "ingest" ELSE "caller"

\* C7: a subscriber is delivered no event twice, no event published before it
\* subscribed, and the events of one publisher in the order of their Publish
\* calls.
C7_AtMostOnceInOrder ==
    \A s \in Subscribers :
       LET d == Delivered(s) IN
       /\ \A i, j \in DOMAIN d : i < j => d[i] # d[j]
       /\ \A i \in DOMAIN d : d[i].Timestamp > joinedAt[s]
       /\ \A i, j \in DOMAIN d :
             (i < j /\ PublisherOf(d[i]) = PublisherOf(d[j]))
                => d[i].Timestamp < d[j].Timestamp

\* C7 witness: a subscriber that joined after an event was published and was
\* then delivered two events of one publisher.
C7_Witness ==
    \E s \in Subscribers :
       /\ joinedAt[s] > 0
       /\ \E i, j \in DOMAIN Delivered(s) :
             i < j /\ PublisherOf(Delivered(s)[i]) = PublisherOf(Delivered(s)[j])

Lost(s) == Len(offered[s]) - Len(Delivered(s))

\* C8: a subscriber that never read and was offered N > 64 events buffers
\* exactly the first 64 of them and lost the N - 64 later ones; a subscriber
\* whose buffer was never full when an event was offered lost nothing.
C8_OverflowIsTheLoss ==
    \A s \in Subscribers :
       /\ (got[s] = <<>> /\ Len(offered[s]) > SubChanCap) =>
             /\ ch[s].buf = SubSeq(offered[s], 1, SubChanCap)
             /\ Lost(s) = Len(offered[s]) - SubChanCap
             /\ Lost(s) > 0
       /\ metFull[s] = 0 =>
             /\ Delivered(s) = offered[s]
             /\ Lost(s) = 0

\* C8 witness: one subscriber never read and lost events, another was offered
\* more than 64 events and lost none.
C8_Witness ==
    \E s, t \in Subscribers :
       /\ got[s] = <<>> /\ Len(offered[s]) > SubChanCap + 1
       /\ Lost(s) = Len(offered[s]) - SubChanCap
       /\ Len(offered[t]) > SubChanCap /\ Lost(t) = 0

\* ------------------------------------------------------------------------
\* Properties of the transport
\* ------------------------------------------------------------------------

\* The frame a reader task holds, read and not yet offered to the queue.
Held ==
    IF \E r \in Readers : rd[r].pc = "enqueue"
    THEN <<rd[CHOOSE r \in Readers : rd[r].pc = "enqueue"].frame>>
    ELSE <<>>

\* The frames read that the ingest loop received or will find in the queue,
\* in the order in which it receives them.
Reached == ingested \o frames \o Held

\* The frames read, in the order read, but for those stamped in gone.
ReadExcept(gone) ==
    LET Kept(f) == f.Timestamp \notin gone IN SelectSeq(readLog, Kept)

\* C9 as stated: the frames that reach the ingest loop are the frames read,
\* in the order read, but for those that found the queue full.
C9_OnlyFullQueueLoses == Reached = ReadExcept(fullLog)

\* C9: the frames that reach the ingest loop are the frames read, in the
\* order read, none twice, but for those that found the queue full and the
\* one the reader held when it returned on the cancellation of its context.
C9_InOrderButDropped == Reached = ReadExcept(fullLog \cup cancelLog)

\* C9 witness: a frame found the queue full and was dropped, the ingest loop
\* received a frame, and a frame read after the dropped one is queued.
C9_Witness ==
    /\ ingested # <<>>
    /\ \E ts \in fullLog : \E i \in DOMAIN frames : frames[i].Timestamp > ts

\* A reader task that runs and whose context is not cancelled.
Retrying(r) == rd[r].pc \notin {"none", "exit"} /\ r \notin ctxDone

\* C10: a reader task returns only when its context is cancelled, and while
\* it runs uncancelled a state Failed or Disconnected is always followed by
\* an attempt to dial (state Connecting) or by the cancellation.
C10_KeepsDialing ==
    /\ [](\A r \in Readers : rd[r].pc = "exit" => r \in ctxDone)
    /\ \A r \in Readers :
          (Retrying(r) /\ tState \in {StateFailed, StateDisconnected})
             ~> (tState = StateConnecting \/ r \in ctxDone)

\* C10 witness: a reader that lost an established connection on which it had
\* read a frame dials again, its backoff at the cap after repeated failures.
C10_Witness ==
    \E r \in Readers :
       /\ Retrying(r)
       /\ rd[r].pc = "dial"
       /\ rd[r].backoff = tcpMaxBackoff
       /\ nRead > 0

\* C11: when reader r has lost an established connection (the state is then
\* Disconnected) and its context is not cancelled, the reader waits a backoff
\* delay before it dials again: its step after the loss is handled is the
\* entry into the backoff wait.
C11_LossStep(r) ==
    /\ rd[r].pc = "lost"
    /\ rd'[r].pc # "lost"
    /\ r \notin ctxDone

C11_BackoffBeforeRedial ==
    [][\A r \in Readers :
          C11_LossStep(r) =>
             /\ tState' = StateDisconnected
             /\ rd'[r].pc = "backoff"]_vars

\* The delay the spec gives for the wait after the k-th consecutive failure.
SpecBackoff(k) == IF 2 * Pow(2, k - 1) < 60 THEN 2 * Pow(2, k - 1) ELSE 60

\* C12: the delay a reader waits after its k-th consecutive dial failure is
\* min(2 * 2^(k-1), 60) seconds; no delay exceeds 60 s; a reader that has
\* dialled successfully has its next delay back at 2 s.
C12_BackoffSequence ==
    \A r \in Readers :
       /\ rd[r].backoff <= 60
       /\ rd[r].pc = "backoff" =>
             /\ rd[r].fails >= 1
             /\ rd[r].backoff = SpecBackoff(rd[r].fails)
       /\ rd[r].fails = 0 => rd[r].backoff = 2

\* C12 witness: a reader that lost a connection on which it had read a frame
\* waits 60 s after its seventh dial failure in a row.
C12_Witness ==
    \E r \in Readers :
       /\ rd[r].pc = "backoff"
       /\ rd[r].fails = 7
       /\ rd[r].backoff = 60
       /\ nRead > 0

\* Reader r rejected the last header it read: a length of 0 or above 512 KiB.
C13_Rejected(r) == rd[r].n = 0 \/ rd[r].n > 524288

\* C13: every frame on the receive queue has a payload of 1 to 524288 bytes;
\* a reader that rejected a header holds no frame for it and is not reading
\* from that connection; and once it has handled the rejection the state is
\* not Connected and the connection is closed.
C13_BadHeaderTearsDown ==
    /\ \A i \in DOMAIN frames :
          Len(frames[i].Data) >= 1 /\ Len(frames[i].Data) <= 524288
    /\ \A r \in Readers :
          C13_Rejected(r) =>
             /\ rd[r].frame = NoFrame
             /\ rd[r].pc \notin {"read", "enqueue"}
             /\ rd[r].pc \in {"top", "dial", "backoff", "exit"} =>
                   /\ tState # StateConnected
                   /\ r \notin connOpen

\* The select of reader r, a frame in hand, takes one of its cases.
SelectStep(r) == \E choice \in SelectCases : ReaderEnqueue(r, choice)

\* C14: the receive queue never holds more than 256 frames, and a reader
\* with a frame in hand never waits for the consumer: its select can always
\* take a case.
C14_BoundedNeverWaits ==
    /\ Len(frames) <= 256
    /\ \A r \in Readers : rd[r].pc = "enqueue" => ENABLED SelectStep(r)

\* C14: the step a reader takes with a frame in hand while the queue holds
\* 256 frames leaves the queue as it is and the reader without the frame; the
\* reader goes on to read the next frame (it returns instead if its context
\* is cancelled).
C14_DropsNewest ==
    \A r \in Readers :
       (rd[r].pc = "enqueue" /\ rd'[r].pc # "enqueue" /\ Len(frames) = 256) =>
          /\ frames' = frames
          /\ rd'[r].frame = NoFrame
          /\ rd'[r].pc = IF r \in ctxDone THEN "uninstall" ELSE "read"

NoLinkPcs == {"none", "top", "dial", "backoff", "install", "lost", "exit"}

\* bytes is a sequence of whole frames, each a 4-byte big-endian length and
\* a payload of that length that some caller sent.
RECURSIVE WellFramed(_)
WellFramed(bytes) ==
    \/ bytes = <<>>
    \/ /\ Len(bytes) >= 4
       /\ LET n == Uint32(SubSeq(bytes, 1, 4)) IN
          /\ Len(bytes) >= 4 + n
          /\ SubSeq(bytes, 5, 4 + n) \in Range(SendData)
          /\ WellFramed(SubSeq(bytes, 5 + n, Len(bytes)))

\* C15: the transport has no link (t.conn is nil) before a dial has
\* succeeded, between the loss of a connection and the next successful dial,
\* and once Disconnect has run; a Send that finds no link returns the
\* not-connected error and has written nothing; a Send that finds a link does
\* not return that error and, if it succeeds, has written the 4-byte length
\* and the payload; and the bytes on a connection are whole frames, one after
\* the other, whenever no Send is in the middle of its writes.
C15_SendFramesOrFails ==
    /\ (\A r \in Readers : rd[r].pc \in NoLinkPcs) => tConn = 0
    /\ disc["start"] \in {"waiting", "returned"} => tConn = 0
    /\ \A c \in Senders :
          /\ (send[c].pc = "done" /\ send[c].conn = 0) =>
                send[c].err = "not connected" /\ send[c].wrote = 0
          /\ send[c].conn # 0 => send[c].err # "not connected"
          /\ (send[c].pc = "done" /\ send[c].err = "none") =>
                send[c].wrote = 4 + Len(SendData[c])
    /\ (\A c \in Senders : send[c].pc # "write") =>
          \A r \in Readers : WellFramed(wire[r])

\* C15 witness: one caller's Send has failed for want of a link, after the
\* connection was lost, while the other's had succeeded, and the connection
\* carries the frames of two Sends.
C15_Witness ==
    \E c, d \in Senders :
       /\ send[c].pc = "done" /\ send[c].err = "not connected"
       /\ send[d].pc = "done" /\ send[d].err = "none" /\ send[d].wrote > 0
       /\ \E r \in Readers : Len(wire[r]) >= 10

\* C16: once a call to Disconnect has returned, or every reader task that
\* was started has ended, the stream Receive returns is closed, so that a
\* consumer that drains it observes the closure.
C16_ClosedWhenDisconnected ==
    \/ /\ \A c \in Callers : disc[c] # "returned"
       /\ Started = {} \/ \E r \in Started : rd[r].pc # "exit"
    \/ FramesClosed

\* ------------------------------------------------------------------------
\* StateManager properties
\* ------------------------------------------------------------------------

\* The node object of c's UpsertNode call, across a step of that call.
UpsertRef(c) == IF up[c].ref # 0 THEN up[c].ref ELSE up'[c].ref

\* A step of c's UpsertNode call.
UpsertStep(c) == up'[c] # up[c]

\* C17: every step of an UpsertNode call whose node has id 0 leaves the cache
\* as it was (same ids, same values, same NodeCount) and the peers table
\* untouched, and the call goes straight to returning the validation error.
C17_ZeroIDRejected ==
    [][\A c \in Upserters :
          (UpsertStep(c) /\ heap'[UpsertRef(c)].NodeID = 0)
             => /\ nodes' = nodes
                /\ ListNodes' = ListNodes
                /\ NodeCount' = NodeCount
                /\ peers' = peers
                /\ up'[c].pc \in {"done", "idle"}
                /\ up'[c].pc = "done"
                      => up'[c].err = "node ID must not be zero"]_vars

\* An UpsertNode call with id 0 has been rejected while the cache holds a node.
C17_Witness ==
    \E c \in Upserters :
        /\ up[c].pc = "done"
        /\ heap[up[c].ref].NodeID = 0
        /\ up[c].err = "node ID must not be zero"
        /\ NodeCount > 0

\* The step in which c's durable write fails.
ExecFails(c) ==
    up[c].pc = "persist" /\ up'[c].pc = "done" /\ ~up'[c].dbOk

\* No other UpsertNode call has been made for the id of node object ref.
OnlyNodeWithID(ref) ==
    \A r \in 1..Len(heap) : r # ref => heap[r].NodeID # heap[ref].NodeID

SameBut(a, b, fields) == \A f \in DOMAIN a \ fields : a[f] = b[f]

\* An update of node id leaves the ids of the cache, every other entry and
\* the peers table as they were, and in the entry of id, when there is one,
\* changes at most the given fields and moves LastSeen forward.
UpdatesOnly(id, fields) ==
    /\ nodes' = nodes
    /\ NodeCount' = NodeCount
    /\ peers' = peers
    /\ \A j \in DOMAIN nodes \ {id} : ListNodes'[j] = ListNodes[j]
    /\ id \in DOMAIN nodes
          => /\ SameBut(ListNodes[id], ListNodes'[id], fields \cup {"LastSeen"})
             /\ ListNodes'[id].LastSeen > ListNodes[id].LastSeen

\* C19: UpdateTelemetry and UpdatePosition on an id that is not cached change
\* nothing; on a cached id they change only that entry's battery level and
\* voltage (resp. latitude, longitude and altitude) and refresh its LastSeen,
\* and GetNode then reports the values passed.
C19_UpdatesTouchOnlyTheirFields ==
    [][/\ \A id \in NodeIDs, battery \in Batteries, voltage \in Voltages :
             UpdateTelemetry(id, battery, voltage)
                => /\ UpdatesOnly(id, {"BatteryLevel", "Voltage"})
                   /\ id \in DOMAIN nodes
                         => /\ GetNode(id)'.node.BatteryLevel = battery
                            /\ GetNode(id)'.node.Voltage = voltage
       /\ \A id \in NodeIDs :
             UpdatePosition(id, Position.lat, Position.lon, Position.alt)
                => /\ UpdatesOnly(id, {"Lat", "Lon", "Alt"})
                   /\ id \in DOMAIN nodes
                         => /\ GetNode(id)'.node.Lat = Position.lat
                            /\ GetNode(id)'.node.Lon = Position.lon
                            /\ GetNode(id)'.node.Alt = Position.alt]_vars

\* After UpsertNode(7) and UpdateTelemetry(7, 42, 3.7 V) GetNode(7) reports
\* battery level 42 and no position, next to a node 8 that is as upserted.
C19_Witness ==
    /\ GetNode(7).ok
    /\ GetNode(7).node.BatteryLevel = 42
    /\ GetNode(7).node.Voltage = 37
    /\ GetNode(7).node.Lat = 0
    /\ GetNode(7).node.LastSeen > 2
    /\ GetNode(8).ok
    /\ GetNode(8).node.BatteryLevel = 0

\* The node objects with a valid id whose UpsertNode call has made its map
\* assignment (the call may since have returned).
Upserted ==
    {r \in 1..Len(heap) :
        /\ heap[r].NodeID # 0
        /\ ~\E c \in Upserters : up[c].ref = r /\ up[c].pc \in {"lock", "put"}}

\* C20: whatever the interleaving of the UpsertNode calls, the cache holds
\* exactly the ids of the calls that have made their assignment, so once all
\* have returned it holds every upserted id and NodeCount counts them; and an
\* id upserted by one call only is cached with that call's node.
C20_NoLostUpsert ==
    /\ DOMAIN nodes = {heap[r].NodeID : r \in Upserted}
    /\ NodeCount = Cardinality({heap[r].NodeID : r \in Upserted})
    /\ \A r \in Upserted : OnlyNodeWithID(r) => nodes[heap[r].NodeID] = r

\* Two UpsertNode calls with distinct ids, in progress together, are both
\* about to return, and the cache holds the two ids.
C20_Witness ==
    /\ up["u1"].pc = "done" /\ up["u2"].pc = "done"
    /\ heap[up["u1"].ref].NodeID # 0
    /\ heap[up["u2"].ref].NodeID # 0
    /\ heap[up["u1"].ref].NodeID # heap[up["u2"].ref].NodeID
    /\ NodeCount = 2

\* The values a caller reads in the list ListNodes returned last.
ListedValues == [id \in DOMAIN listed |-> ElemValue(listed[id])]

\* C21: writing into an element of a list that ListNodes returned changes
\* nothing that GetNode or ListNodes report, and the elements of a returned
\* list change only when their holder writes into them: no UpsertNode,
\* UpdateTelemetry or UpdatePosition call (nor a write into a cached object)
\* changes them.
C21_ListNodesReturnsCopies ==
    [][/\ \A id \in NodeIDs :
             MutateListed(id)
                => /\ ListNodes' = ListNodes
                   /\ \A j \in NodeIDs : GetNode(j)' = GetNode(j)
       /\ ListedValues' # ListedValues
             => \/ ListNodesCall
                \/ \E id \in NodeIDs : MutateListed(id)]_vars

\* A caller has written into the element for a node of a list it got, the
\* node has been updated since, and the cache and the list each kept their
\* own value.
C21_Witness ==
    \E id \in DOMAIN listed :
        /\ ListedValues[id].LongName = Renamed
        /\ GetNode(id).ok
        /\ GetNode(id).node.LongName # Renamed
        /\ GetNode(id).node.BatteryLevel = 42
        /\ ListedValues[id].BatteryLevel = 0

\* C22: every cached node has an id other than 0, is stored under that id,
\* and has the hex id "!" followed by the eight hex digits of the id.
C22_CachedNodesCanonical ==
    \A id \in DOMAIN nodes :
        LET n == heap[nodes[id]] IN
            /\ n.NodeID # 0
            /\ n.NodeID = id
            /\ n.NodeIDHex = HexID(n.NodeID)

\* ------------------------------------------------------------------------
\* Codec properties
\* ------------------------------------------------------------------------

\* C23 as stated: whenever DecodeFromRadio accepts a raw input, EncodeToRadio
\* of the packet it produced gives the input back, byte for byte.
C23_RoundTripOfAccepted ==
    codec.pc = "encoded" => codec.enc.data = codec.raw

\* C23, amended: EncodeToRadio of the packet DecodeFromRadio produced gives
\* back the header and the declared number of payload bytes: the whole input
\* when it holds exactly the declared number of payload bytes, and the input
\* without its surplus bytes when it holds more.
C23_RoundTripOfExactFrames ==
    codec.pc = "encoded"
       => /\ codec.enc.err = "none"
          /\ codec.enc.data = SubSeq(codec.raw, 1, 4 + codec.L)
          /\ codec.A = codec.L => codec.enc.data = codec.raw
          /\ codec.A > codec.L => codec.enc.data # codec.raw

\* A frame that declares, and holds, the longest payload has been decoded and
\* encoded back to itself.
C23_Witness ==
    /\ codec.pc = "encoded"
    /\ codec.L = MaxCodecLen /\ codec.A = MaxCodecLen
    /\ codec.enc.data = codec.raw
    /\ Len(codec.raw) = 4 + MaxCodecLen

\* C24: DecodeFromRadio fails with the too-short error exactly when fewer
\* than 4 header bytes are there, with the truncation error exactly when the
\* header is whole and fewer payload bytes are there than it declares, and in
\* every other case succeeds, with the declared number of payload bytes.
C24_DecodeErrors ==
    codec.pc \in {"decoded", "encoded"}
       => /\ codec.dec.err = "frame too short" <=> codec.hdr < 4
          /\ codec.dec.err = "frame truncated"
                <=> (codec.hdr = 4 /\ codec.A < codec.L)
          /\ codec.dec.err = "none" <=> (codec.hdr = 4 /\ codec.A >= codec.L)
          /\ codec.dec.err = "none"
                => codec.dec.Packet.Payload
                      = SubSeq(RawPayload(codec.A), 1, codec.L)

\* An input whose header declares 256 bytes, in its third byte, and that
\* holds fewer has been refused as truncated.
C24_Witness ==
    /\ codec.pc = "decoded"
    /\ codec.hdr = 4 /\ codec.L = 256 /\ codec.A = MaxCodecLen
    /\ codec.dec.err = "frame truncated"

\* ------------------------------------------------------------------------
\* Ingest loop: failures
\* ------------------------------------------------------------------------

\* The ingest loop's state outside its own position and record is untouched:
\* nothing stored, nothing published.
NothingStoredOrPublished ==
    /\ db' = db
    /\ UNCHANGED <<pub, ch, offered, nPub>>

\* C25: an iteration whose decode or whose RecordMessage fails stores and
\* publishes nothing and leaves the loop at its select, ready for the next
\* frame; no event is ever published for a frame that was not stored; and
\* the loop ends only from its select, on cancellation.
C25_FailureSkipsOneFrame ==
    [][/\ (ingestPc = "recv" /\ ingested' # ingested /\ ingestPc' # "store")
             => ingestPc' = "recv" /\ NothingStoredOrPublished
       /\ (ingestPc = "store" /\ ingestPc' \notin {"store", "publish"})
             => ingestPc' = "recv" /\ NothingStoredOrPublished
       /\ (ingestPc # "done" /\ ingestPc' = "done")
             => ingestPc = "recv" /\ gwCtxDone
       /\ \A e \in PublishedByIngest' :
             \E i \in DOMAIN db' : db'[i].ReceivedAt = e.Data.ReceivedAt]_vars

\* RecordMessage failed for the first frame: nothing was published for it;
\* the loop went on, stored the second frame and published its event, and is
\* back at its select.
C25_Witness ==
    /\ Len(ingested) = 2
    /\ Len(db) = 1
    /\ db[1].ReceivedAt = ingested[2].Timestamp
    /\ ingestPc = "recv"
    /\ \E s \in Subscribers :
          /\ \E e \in Range(Delivered(s)) :
                e.Data.ReceivedAt = ingested[2].Timestamp
          /\ \A e \in Range(Delivered(s)) :
                e.Data.ReceivedAt # ingested[1].Timestamp

\* ------------------------------------------------------------------------
\* Reader tasks
\* ------------------------------------------------------------------------

\* The reader tasks that are running.
Running == {r \in Readers : rd[r].pc \notin {"none", "exit"}}

\* C26: no step leaves more than one reader task running, and none is
\* running when a Disconnect call returns.
C26_AtMostOneReader ==
    [][/\ Cardinality(Running') <= 1
       /\ (disc["api"] # "returned" /\ disc'["api"] = "returned")
             => Running' = {}]_vars

\* ------------------------------------------------------------------------
\* Peer registry properties
\* ------------------------------------------------------------------------

\* C27: PeerCount never exceeds MaxPeers; AddPeer returns the peer-limit
\* error exactly when the peer is not registered and the registry is full,
\* and then leaves the registry as it was; and AddPeer for a registered node
\* id succeeds and replaces that peer's record.
C27_AddPeerLimit ==
    [][\A p \in PeerInputs :
          AddPeer(p)
             => LET known == p.NodeID \in DOMAIN repl.peers
                    err == repl'.last.err
                IN  /\ PeerCount' <= MaxPeers
                    /\ err # "none" <=> (~known /\ PeerCount >= MaxPeers)
                    /\ err # "none" => repl'.peers = repl.peers
                    /\ known => err = "none" /\ repl'.peers[p.NodeID] = p]_vars

\* ------------------------------------------------------------------------
\* State manager: the durable table and the callers' pointers
\* ------------------------------------------------------------------------

\* C28: when every UpsertNode call has returned, and no durable write has
\* failed, the peers table has for every cached node the row of that node:
\* its display name and last-seen under its hex id.
C28_DurableAgreesWithCache ==
    (\A c \in Upserters : up[c].pc = "idle")
       => \A id \in DOMAIN nodes :
             LET n == GetNode(id).node IN
                /\ n.NodeIDHex \in DOMAIN peers
                /\ peers[n.NodeIDHex] = PeerRow(n)

\* C29: a caller that writes into the node it passed to an UpsertNode call
\* that has returned, or into the node GetNode returned, changes nothing
\* that GetNode or ListNodes report; what they report changes only in a step
\* of UpsertNode, UpdateTelemetry or UpdatePosition.
C29_CacheChangesOnlyThroughManager ==
    [][/\ \A r \in 1..MaxCallerNodes :
             MutateNode(r)
                => /\ ListNodes' = ListNodes
                   /\ \A id \in NodeIDs : GetNode(id)' = GetNode(id)
       /\ ListNodes' # ListNodes
             => \/ \E c \in Upserters : UpsertPut(c)
                \/ \E id \in NodeIDs, battery \in Batteries,
                         voltage \in Voltages :
                      UpdateTelemetry(id, battery, voltage)
                \/ \E id \in NodeIDs :
                      UpdatePosition(id, Position.lat, Position.lon,
                                     Position.alt)]_vars

\* ------------------------------------------------------------------------
\* EventBus: the unsubscribe function called twice
\* ------------------------------------------------------------------------

\* C30: a call of the unsubscribe function after the first one has returned
\* leaves the registry and every stream as they were and closes nothing: a
\* stream that is closed stays closed and is never closed a second time.
C30_SecondUnsubIsSafe ==
    [][\A s \in Subscribers :
          /\ UnsubAgainDelete(s) => subs' = subs /\ ch' = ch
          /\ (UnsubClose(s) /\ ch[s].closed)
                => /\ subs' = subs
                   /\ ch' = ch
                   /\ busPanic' = "none"]_vars

\* ------------------------------------------------------------------------
\* TCPTransport: the connection state and the link Send uses
\* ------------------------------------------------------------------------

\* C31: in every state GetConnectionState reports Connected exactly when a
\* link is installed for Send (t.conn is not nil).
C31_ConnectedIffLink ==
    (tState = StateConnected) <=> HasLink(tConn)

\* ------------------------------------------------------------------------
\* The subscribe adapter
\* ------------------------------------------------------------------------

\* C32: once the adapter's unsubscribe function has been called and has
\* returned, the forwarding task eventually ends and the outward stream is
\* closed, whatever is buffered and whether or not the consumer still reads.
C32_ForwarderTerminates ==
    (subPc[AdapterSub] = "unsubscribed") ~> (fwd.pc = "done" /\ out.closed)

====
